---- MODULE Spec2Model ----
(***************************************************************************)
(* Model of the SVG rectangle extraction engine (SVGParserService) of the  *)
(* svg-processor backend.                                                  *)
(*                                                                         *)
(* Representation                                                          *)
(*   - An attribute value is a sequence of one-character strings, or       *)
(*     Undefined when the attribute is absent.                             *)
(*   - Numbers are integers: the modelled attribute texts contain no '.',  *)
(*     no exponent and no "Infinity", so parseFloat yields an integer or   *)
(*     NaN on every modelled text.                                         *)
(*   - The XML decode primitive (xml2js) is outside the repository: the    *)
(*     input carries the tree the decode would produce (or the fact that   *)
(*     it rejects), and when the decode settles is left open.              *)
(***************************************************************************)
EXTENDS Integers, Sequences, FiniteSets, TLC

VARIABLES
    call,     \* the parseContent calls: for each call the record of
              \*   svgContent    argument of the call
              \*   pc            position of the call
              \*   parsePromise  state of the promise of parseStringPromise
              \*   timer         state of the setTimeout armed by withTimeout
              \*   race          the Promise.race promise of withTimeout
              \*   firstSettled  which contestant of the race settled first
              \*   outcome       what the parseContent promise settled with
              \*   settled       number of times that promise settled
              \*   decodeCalls   number of calls of parseStringPromise
    metrics,  \* counters of the MetricsCollector, shared by all calls
    arg,      \* argument of a helper function applied on its own
    ret,      \* what the helper returned for arg
    design,   \* the document of the design in the designs collection
    processRuns, \* the invocations of DesignService.processWithRetry
    requests, \* the reprocess and delete requests of the design
    hook      \* a component's useAsync hook: its state and its execute calls

vars == <<call, metrics, arg, ret, design, processRuns, requests, hook>>

----------------------------------------------------------------------------
(* PARSER_CONFIG *)

maxFileSizeBytes == 5 * 1024 * 1024

maxRectangles == 10000

maxDimension == 100000

parseTimeoutMs == 5000

----------------------------------------------------------------------------
(* Bounds of the model *)

\* longest list of <rect> elements in a modelled document
MaxRects == 2

----------------------------------------------------------------------------
(* Strings *)

Undefined == <<"undefined">>

Digits == {"0", "1", "2", "3", "4", "5", "6", "7", "8", "9"}

DigitVal(c) ==
    CASE c = "0" -> 0 [] c = "1" -> 1 [] c = "2" -> 2 [] c = "3" -> 3
      [] c = "4" -> 4 [] c = "5" -> 5 [] c = "6" -> 6 [] c = "7" -> 7
      [] c = "8" -> 8 [] c = "9" -> 9

\* \s of a JavaScript regular expression, and StrWhiteSpaceChar of parseFloat
IsSpace(c) == c \in {" ", "\t", "\n"}

\* a separator class without the comma
IsSepSpaceOnly(c) == IsSpace(c)

\* the separator class [\s,] of the viewBox split
IsSep(c) == IsSpace(c) \/ c = ","

\* index of the first character at or after i that is not white space
RECURSIVE SkipSpace(_, _)
SkipSpace(s, i) ==
    IF i <= Len(s) /\ IsSpace(s[i]) THEN SkipSpace(s, i + 1) ELSE i

\* index just after the run of digits that starts at i
RECURSIVE DigitsEnd(_, _)
DigitsEnd(s, i) ==
    IF i <= Len(s) /\ s[i] \in Digits THEN DigitsEnd(s, i + 1) ELSE i

\* value of the digits s[i..j-1], given the value acc of the digits before
RECURSIVE DigitsValue(_, _, _, _)
DigitsValue(s, i, j, acc) ==
    IF i >= j THEN acc ELSE DigitsValue(s, i + 1, j, acc * 10 + DigitVal(s[i]))

\* JavaScript parseFloat on a text without '.', exponent or "Infinity":
\* leading white space, an optional sign, the longest run of digits; what
\* follows the digits is ignored; NaN when there is no digit.
parseFloat(s) ==
    LET i0 == SkipSpace(s, 1)
        signed == i0 <= Len(s) /\ s[i0] \in {"-", "+"}
        i1 == IF signed THEN i0 + 1 ELSE i0
        i2 == DigitsEnd(s, i1)
        mag == DigitsValue(s, i1, i2, 0)
    IN  IF i2 = i1 THEN [nan |-> TRUE, val |-> 0]
        ELSE [nan |-> FALSE,
              val |-> IF signed /\ s[i0] = "-" THEN 0 - mag ELSE mag]

\* a conversion that takes a text only when all of it is a number
parseNumberStrict(value, defaultValue) ==
    IF value = Undefined \/ value = <<>> THEN defaultValue
    ELSE LET i0 == SkipSpace(value, 1)
             i1 == IF i0 <= Len(value) /\ value[i0] \in {"-", "+"}
                   THEN i0 + 1 ELSE i0
             parsed == parseFloat(value)
         IN  IF parsed.nan \/ DigitsEnd(value, i1) <= Len(value)
             THEN defaultValue
             ELSE parsed.val

\* if (!value) return defaultValue; parseFloat(value), defaultValue when NaN
parseNumber(value, defaultValue) ==
    IF value = Undefined \/ value = <<>> THEN defaultValue
    ELSE LET parsed == parseFloat(value)
         IN  IF parsed.nan THEN defaultValue ELSE parsed.val

\* String.prototype.split(/[\s,]+/): the pieces between maximal runs of
\* separators; a leading or trailing run yields an empty first or last piece.
RECURSIVE SplitFrom(_, _, _, _)
SplitFrom(s, i, cur, parts) ==
    IF i > Len(s) THEN Append(parts, cur)
    ELSE IF IsSep(s[i])
         THEN IF i > 1 /\ IsSep(s[i - 1])
              THEN SplitFrom(s, i + 1, cur, parts)
              ELSE SplitFrom(s, i + 1, <<>>, Append(parts, cur))
         ELSE SplitFrom(s, i + 1, Append(cur, s[i]), parts)

SplitSeparators(s) == SplitFrom(s, 1, <<>>, <<>>)

parseDimensions(attrs) ==
    LET width0 == parseNumber(attrs.width, 0)
        height0 == parseNumber(attrs.height, 0)
    IN  IF (width0 <= 0 \/ height0 <= 0)
           /\ attrs.viewBox # Undefined /\ attrs.viewBox # <<>>
        THEN LET parts == SplitSeparators(attrs.viewBox)
             IN  IF Len(parts) = 4
                 THEN [width |-> parseNumber(parts[3], width0),
                       height |-> parseNumber(parts[4], height0)]
                 ELSE [width |-> width0, height |-> height0]
        ELSE [width |-> width0, height |-> height0]

----------------------------------------------------------------------------
(* Fill resolution *)

Lower(c) ==
    CASE c = "F" -> "f" [] c = "I" -> "i" [] c = "L" -> "l" [] OTHER -> c

\* index just after the run of characters other than ';' that starts at i
RECURSIVE NotSemiEnd(_, _)
NotSemiEnd(s, i) ==
    IF i <= Len(s) /\ s[i] # ";" THEN NotSemiEnd(s, i + 1) ELSE i

\* String.prototype.trim
RECURSIVE TrimRight(_)
TrimRight(s) ==
    IF Len(s) > 0 /\ IsSpace(s[Len(s)]) THEN TrimRight(SubSeq(s, 1, Len(s) - 1))
    ELSE s

Trim(s) == TrimRight(SubSeq(s, SkipSpace(s, 1), Len(s)))

\* The capture group of /fill\s*:\s*([^;]+)/i matched at position i of s, as
\* [found, from, to]. The second \s* is greedy and gives back its last
\* character to the group when nothing else is left for [^;]+.
FillMatchAt(s, i) ==
    LET none == [found |-> FALSE, from |-> 0, to |-> 0]
    IN  IF i + 3 > Len(s) THEN none
        ELSE IF <<Lower(s[i]), Lower(s[i + 1]), Lower(s[i + 2]), Lower(s[i + 3])>>
                # <<"f", "i", "l", "l">> THEN none
        ELSE LET j == SkipSpace(s, i + 4)
             IN  IF j > Len(s) \/ s[j] # ":" THEN none
                 ELSE LET k == SkipSpace(s, j + 1)
                          from == IF k <= Len(s) /\ s[k] # ";" THEN k
                                  ELSE IF k > j + 1 THEN k - 1 ELSE 0
                      IN  IF from = 0 THEN none
                          ELSE [found |-> TRUE, from |-> from,
                                to |-> NotSemiEnd(s, from) - 1]

\* the first match of the pattern in s, searching from position i
RECURSIVE FillMatchFrom(_, _)
FillMatchFrom(s, i) ==
    IF i > Len(s) THEN [found |-> FALSE, from |-> 0, to |-> 0]
    ELSE LET m == FillMatchAt(s, i)
         IN  IF m.found THEN m ELSE FillMatchFrom(s, i + 1)

DefaultFill == <<"#", "0", "0", "0", "0", "0", "0">>

\* a fill resolution that looks at the style attribute first
extractFillStyleFirst(attrs) ==
    LET match == IF attrs.style = Undefined
                 THEN [found |-> FALSE, from |-> 0, to |-> 0]
                 ELSE FillMatchFrom(attrs.style, 1)
    IN  IF match.found THEN Trim(SubSeq(attrs.style, match.from, match.to))
        ELSE IF attrs.fill # Undefined /\ attrs.fill # <<>> THEN attrs.fill
        ELSE DefaultFill

\* if (attrs.fill) return attrs.fill; else the trimmed capture group of the
\* first match of the pattern in attrs.style; else '#000000'
extractFill(attrs) ==
    IF attrs.fill # Undefined /\ attrs.fill # <<>> THEN attrs.fill
    ELSE IF attrs.style = Undefined THEN DefaultFill
    ELSE LET match == FillMatchFrom(attrs.style, 1)
         IN  IF match.found THEN Trim(SubSeq(attrs.style, match.from, match.to))
             ELSE DefaultFill

----------------------------------------------------------------------------
(* Errors *)

\* new SVGParseError(message); a message is a fixed text with at most one
\* operation name and one number filled in
SVGParseError(text, operation, num) ==
    [name |-> "SVGParseError", text |-> text, operation |-> operation,
     num |-> num]

SizeError ==
    SVGParseError("SVG content exceeds maximum size of <num>MB", "",
                  (maxFileSizeBytes \div 1024) \div 1024)

\* the size error of parseFile
FileSizeError ==
    SVGParseError("SVG file exceeds maximum size of <num>MB", "",
                  (maxFileSizeBytes \div 1024) \div 1024)

\* the error of the catch block of parseFile around an error that is not an
\* SVGParseError; <operation> stands for the message of that error
ReadOrParseError(message) ==
    SVGParseError("Failed to read or parse SVG: <operation>", message, 0)

TimeoutError(operation, timeoutMs) ==
    SVGParseError("<operation> timed out after <num>ms", operation, timeoutMs)

InvalidXMLError == SVGParseError("Invalid SVG: Failed to parse XML", "", 0)

NoRootError == SVGParseError("Invalid SVG: No root svg element found", "", 0)

NotPositiveError ==
    SVGParseError("Invalid SVG: width and height must be positive", "", 0)

TooLargeError ==
    SVGParseError("Invalid SVG: dimensions exceed maximum of <num>px", "",
                  maxDimension)

\* what the XML decode primitive rejects with: an Error that is not an
\* SVGParseError
DecodeError == [name |-> "Error", text |-> "xml2js", operation |-> "", num |-> 0]

----------------------------------------------------------------------------
(* parseContent after the decode *)

EmptyAttrs ==
    [x |-> Undefined, y |-> Undefined, width |-> Undefined,
     height |-> Undefined, fill |-> Undefined, style |-> Undefined]

\* the number of elements in the first r runs of a list written by runs
RECURSIVE RunsLen(_, _)
RunsLen(runs, r) ==
    IF r = 0 THEN 0 ELSE RunsLen(runs, r - 1) + runs[r].times

\* the list that a sequence of runs [times, node] stands for: each node
\* repeated 'times' times, run after run
Unfold(runs) ==
    [i \in 1..RunsLen(runs, Len(runs)) |->
        runs[CHOOSE r \in 1..Len(runs) :
                 RunsLen(runs, r - 1) < i /\ i <= RunsLen(runs, r)].node]

\* a normalisation that takes only a list for rectangles
rectArrayOfListOnly(rect) ==
    CASE rect.kind = "none" -> <<>>
      [] rect.kind = "single" -> <<>>
      [] rect.kind = "array" -> rect.nodes
      [] rect.kind = "runs" -> Unfold(rect.runs)

\* Array.isArray(rectElements) ? rectElements : [rectElements], for a rect
\* child that is absent, a single node or a list of nodes
rectArrayOf(rect) ==
    CASE rect.kind = "none" -> <<>>
      [] rect.kind = "single" -> <<rect.node>>
      [] rect.kind = "array" -> rect.nodes
      [] rect.kind = "runs" -> Unfold(rect.runs)

\* a slice that keeps the whole list
SliceAll(rectArray, n) == rectArray

\* rectArray.slice(0, PARSER_CONFIG.maxRectangles)
Slice(rectArray, n) ==
    IF Len(rectArray) <= n THEN rectArray ELSE SubSeq(rectArray, 1, n)

\* an out-of-bounds test that also flags a rectangle on the canvas edge
isOutOfBoundsInclusive(x, y, width, height, svgWidth, svgHeight) ==
    x + width >= svgWidth \/ y + height >= svgHeight

\* x + width > svgWidth || y + height > svgHeight
isOutOfBoundsOf(x, y, width, height, svgWidth, svgHeight) ==
    x + width > svgWidth \/ y + height > svgHeight

\* a loop body that drops only the rectangles of negative size
itemOfKeepZero(rect, svgWidth, svgHeight) ==
    LET attrs == IF rect.hasAttrs THEN rect.attrs ELSE EmptyAttrs
        x == parseNumber(attrs.x, 0)
        y == parseNumber(attrs.y, 0)
        width == parseNumber(attrs.width, 0)
        height == parseNumber(attrs.height, 0)
    IN  IF width < 0 \/ height < 0 THEN <<>>
        ELSE <<[x |-> x, y |-> y, width |-> width, height |-> height,
                fill |-> extractFill(attrs),
                isOutOfBounds |->
                    x + width > svgWidth \/ y + height > svgHeight]>>

\* one iteration of the loop over rectsToProcess: <<>> for a dropped rect,
\* else the one item pushed
itemOf(rect, svgWidth, svgHeight) ==
    LET attrs == IF rect.hasAttrs THEN rect.attrs ELSE EmptyAttrs
        x == parseNumber(attrs.x, 0)
        y == parseNumber(attrs.y, 0)
        width == parseNumber(attrs.width, 0)
        height == parseNumber(attrs.height, 0)
    IN  IF width <= 0 \/ height <= 0 THEN <<>>
        ELSE <<[x |-> x, y |-> y, width |-> width, height |-> height,
                fill |-> extractFill(attrs),
                isOutOfBounds |->
                    isOutOfBoundsOf(x, y, width, height, svgWidth, svgHeight)]>>

\* a loop that pushes the items of the last <rect> first
itemsOfReversed(rects, svgWidth, svgHeight) ==
    LET pushed == [i \in 1..Len(rects) |->
                       itemOf(rects[Len(rects) + 1 - i], svgWidth, svgHeight)]
        kept == SelectSeq(pushed, LAMBDA p : p # <<>>)
    IN  [i \in 1..Len(kept) |-> kept[i][1]]

\* the loop over rectsToProcess: the items pushed, in the order of the loop
itemsOf(rects, svgWidth, svgHeight) ==
    LET pushed == [i \in 1..Len(rects) |-> itemOf(rects[i], svgWidth, svgHeight)]
        kept == SelectSeq(pushed, LAMBDA p : p # <<>>)
    IN  [i \in 1..Len(kept) |-> kept[i][1]]

\* sum of width * height over items[lo..hi]
RECURSIVE AreaBetween(_, _, _)
AreaBetween(items, lo, hi) ==
    IF lo > hi THEN 0
    ELSE IF lo = hi THEN items[lo].width * items[lo].height
    ELSE LET mid == (lo + hi) \div 2
         IN  AreaBetween(items, lo, mid) + AreaBetween(items, mid + 1, hi)

\* items.reduce((sum, item) => sum + item.width * item.height, 0); the sum
\* is taken by halves, which for integers is the sum from left to right
totalRectAreaOf(items) == AreaBetween(items, 1, Len(items))

\* a coverage ratio cut to four decimals with Math.floor
coverageRatioFloor(totalRectArea, svgWidth, svgHeight) ==
    ((totalRectArea * 10000) \div svgWidth) \div svgHeight

\* Math.round((totalRectArea / (svgWidth * svgHeight)) * 10000), in units of
\* 1/10000. Math.round rounds a half up: floor(q + 1/2), computed here as
\* floor((floor(2q) + 1) / 2) with the division by the area done in two
\* steps, which is the same integer and keeps the numbers small.
coverageRatioOf(totalRectArea, svgWidth, svgHeight) ==
    ((((2 * totalRectArea * 10000) \div svgWidth) \div svgHeight) + 1) \div 2

\* an EMPTY test that also fires for a single surviving rectangle
issuesOfEmptyUpToOne(items) ==
    (IF Len(items) <= 1 THEN <<"EMPTY">> ELSE <<>>)
    \o (IF \E i \in 1..Len(items) : items[i].isOutOfBounds
        THEN <<"OUT_OF_BOUNDS">> ELSE <<>>)

\* issues that get one OUT_OF_BOUNDS for every rectangle out of bounds
issuesOfPerItem(items) ==
    (IF Len(items) = 0 THEN <<"EMPTY">> ELSE <<>>)
    \o [i \in 1..Len(SelectSeq(items, LAMBDA item : item.isOutOfBounds)) |->
            "OUT_OF_BOUNDS"]

\* if (items.length === 0) issues.push('EMPTY');
\* if (items.some((item) => item.isOutOfBounds)) issues.push('OUT_OF_BOUNDS');
issuesOf(items) ==
    (IF Len(items) = 0 THEN <<"EMPTY">> ELSE <<>>)
    \o (IF \E i \in 1..Len(items) : items[i].isOutOfBounds
        THEN <<"OUT_OF_BOUNDS">> ELSE <<>>)

Thrown(error) == [kind |-> "thrown", error |-> error]

Returned(value) == [kind |-> "returned", value |-> value]

Passed == [kind |-> "passed"]

\* the dimension checks with the ceiling tested before the sign
validateDimensionsCeilingFirst(svgWidth, svgHeight) ==
    IF svgWidth > maxDimension \/ svgHeight > maxDimension
    THEN Thrown(TooLargeError)
    ELSE IF svgWidth <= 0 \/ svgHeight <= 0 THEN Thrown(NotPositiveError)
    ELSE Passed

\* the dimension checks with a ceiling that maxDimension itself exceeds
validateDimensionsExclusive(svgWidth, svgHeight) ==
    IF svgWidth <= 0 \/ svgHeight <= 0 THEN Thrown(NotPositiveError)
    ELSE IF svgWidth >= maxDimension \/ svgHeight >= maxDimension
         THEN Thrown(TooLargeError)
    ELSE Passed

\* the two dimension checks of parseContent, in their order
validateDimensions(svgWidth, svgHeight) ==
    IF svgWidth <= 0 \/ svgHeight <= 0 THEN Thrown(NotPositiveError)
    ELSE IF svgWidth > maxDimension \/ svgHeight > maxDimension
         THEN Thrown(TooLargeError)
    ELSE Passed

\* an extraction that sets hasOutOfBounds before the size test of the loop,
\* so that a dropped <rect> can set it
extractResultFlagBeforeDrop(svg, svgWidth, svgHeight) ==
    LET rectsToProcess == Slice(rectArrayOf(svg.rect), maxRectangles)
        items == itemsOf(rectsToProcess, svgWidth, svgHeight)
        hasOutOfBounds ==
            \E i \in 1..Len(rectsToProcess) :
                LET attrs == IF rectsToProcess[i].hasAttrs
                             THEN rectsToProcess[i].attrs ELSE EmptyAttrs
                IN  isOutOfBoundsOf(parseNumber(attrs.x, 0),
                                    parseNumber(attrs.y, 0),
                                    parseNumber(attrs.width, 0),
                                    parseNumber(attrs.height, 0),
                                    svgWidth, svgHeight)
    IN  Returned([svgWidth |-> svgWidth,
                  svgHeight |-> svgHeight,
                  items |-> items,
                  itemsCount |-> Len(items),
                  coverageRatio |->
                      coverageRatioOf(totalRectAreaOf(items),
                                      svgWidth, svgHeight),
                  issues |-> (IF Len(items) = 0 THEN <<"EMPTY">> ELSE <<>>)
                             \o (IF hasOutOfBounds
                                 THEN <<"OUT_OF_BOUNDS">> ELSE <<>>)])

\* an extraction that reads rect.$ without the '?? {}' guard: a <rect>
\* without attributes raises a TypeError
extractResultNeedsAttrs(svg, svgWidth, svgHeight) ==
    LET rectsToProcess == Slice(rectArrayOf(svg.rect), maxRectangles)
        items == itemsOf(rectsToProcess, svgWidth, svgHeight)
    IN  IF \E i \in 1..Len(rectsToProcess) : ~rectsToProcess[i].hasAttrs
        THEN Thrown([text |-> "Cannot read properties of undefined",
                     operation |-> "", num |-> 0, name |-> "TypeError"])
        ELSE Returned([svgWidth |-> svgWidth,
                       svgHeight |-> svgHeight,
                       items |-> items,
                       itemsCount |-> Len(items),
                       coverageRatio |->
                           coverageRatioOf(totalRectAreaOf(items),
                                           svgWidth, svgHeight),
                       issues |-> issuesOf(items)])

\* parseContent after the dimension checks: extraction, issues, ratio
extractResult(svg, svgWidth, svgHeight) ==
    LET rectsToProcess == Slice(rectArrayOf(svg.rect), maxRectangles)
        items == itemsOf(rectsToProcess, svgWidth, svgHeight)
    IN  Returned([svgWidth |-> svgWidth,
                  svgHeight |-> svgHeight,
                  items |-> items,
                  itemsCount |-> Len(items),
                  coverageRatio |->
                      coverageRatioOf(totalRectAreaOf(items),
                                      svgWidth, svgHeight),
                  issues |-> issuesOf(items)])

\* parseContent from the root check on, for the decoded tree 'result'
parseTree(result) ==
    IF ~result.hasSvg THEN Thrown(NoRootError)
    ELSE LET dims == parseDimensions(result.svg.attrs)
             checked == validateDimensions(dims.width, dims.height)
         IN  IF checked # Passed THEN checked
             ELSE extractResult(result.svg, dims.width, dims.height)

\* a catch block that reports every rejection as invalid XML
afterAwaitWrapAll(p) ==
    IF p.state = "rejected" THEN Thrown(InvalidXMLError)
    ELSE parseTree(p.value)

\* the try/catch around the await: a rejection that is an SVGParseError is
\* rethrown, any other rejection becomes the invalid-XML error
afterAwait(p) ==
    IF p.state = "rejected"
    THEN IF p.value.name = "SVGParseError" THEN Thrown(p.value)
         ELSE Thrown(InvalidXMLError)
    ELSE parseTree(p.value)

----------------------------------------------------------------------------
(* Inputs: the SVG texts given to parseContent *)

T_0 == <<"0">>
T_5 == <<"5">>
T_6 == <<"6">>
T_10 == <<"1", "0">>
T_15 == <<"1", "5">>
T_20 == <<"2", "0">>
T_20px == <<"2", "0", "p", "x">>
T_m3 == <<"-", "3">>
T_m5 == <<"-", "5">>
T_abc == <<"a", "b", "c">>
T_100000 == <<"1", "0", "0", "0", "0", "0">>
T_100001 == <<"1", "0", "0", "0", "0", "1">>

WidthTexts == {Undefined, T_0, T_m5, T_20, T_20px, T_100000, T_100001}

HeightTexts == {Undefined, T_0, T_abc, T_10, T_100000, T_100001}

VB_space == <<"0", " ", "0", " ", "3", "0", " ", "1", "5">>
VB_comma == <<"0", ",", "0", ",", "3", "0", ",", "1", "5">>
VB_mixed == <<"0", ",", " ", "0", " ", " ", "3", "0", ",", "1", "5">>
VB_three == <<"0", " ", "0", " ", "3", "0">>
VB_leading == <<" ", "0", " ", "0", " ", "3", "0", " ", "1", "5">>
VB_big == <<"0", " ", "0", " ", "-", "1", " ", "1", "0", "0", "0", "0", "1">>
VB_px == <<"0", " ", "0", " ", "3", "0", " ", "p", "x">>

ViewBoxTexts ==
    {Undefined, VB_space, VB_comma, VB_mixed, VB_three, VB_leading, VB_big,
     VB_px}

RootAttrs ==
    [width : WidthTexts, height : HeightTexts, viewBox : ViewBoxTexts]

\* roots with valid dimensions, used for the documents that carry rectangles
CanvasAttrs ==
    {[width |-> T_20, height |-> T_10, viewBox |-> Undefined],
     [width |-> T_20px, height |-> T_10, viewBox |-> VB_space],
     [width |-> Undefined, height |-> Undefined, viewBox |-> VB_comma]}

F_red == <<"r", "e", "d">>
S_fill == <<"F", "i", "l", "l", " ", ":", " ", "#", "0", "f", " ", ";", "x">>
S_blank == <<"f", "i", "l", "l", ":", " ", ";">>

RectAttr(x, y, w, h, fill, style) ==
    [hasAttrs |-> TRUE,
     attrs |-> [x |-> x, y |-> y, width |-> w, height |-> h, fill |-> fill,
                style |-> style]]

\* a <rect/> without attributes
BareRect == [hasAttrs |-> FALSE, attrs |-> EmptyAttrs]

\* horizontal and vertical geometry of the modelled rectangles, on canvases
\* 20 x 10 and 30 x 15
XWidths ==
    {<<Undefined, T_5>>, <<T_15, T_5>>, <<T_15, T_6>>, <<T_m5, T_5>>,
     <<Undefined, T_0>>, <<Undefined, T_m3>>}

YHeights == {<<T_5, T_5>>, <<T_5, T_6>>}

RectNodes ==
    {RectAttr(xw[1], yh[1], xw[2], yh[2], Undefined, Undefined) :
         xw \in XWidths, yh \in YHeights}
    \cup {BareRect,
          RectAttr(T_0, T_m5, T_abc, T_5, F_red, S_fill),
          RectAttr(T_0, T_0, T_5, Undefined, Undefined, Undefined),
          RectAttr(T_0, T_0, T_20px, T_10, Undefined, S_fill),
          RectAttr(T_abc, Undefined, T_5, T_5, <<>>, S_blank)}

NoNode == BareRect

RectSeqs(n) == UNION {[1..k -> RectNodes] : k \in 2..n}

T_1 == <<"1">>

\* rectangles of the long documents: 1 x 1 at the origin, one without
\* width, and 1 x 1 beyond the right edge of a canvas 20 wide
UnitRect == RectAttr(Undefined, Undefined, T_1, T_1, Undefined, Undefined)

ZeroRect == RectAttr(Undefined, Undefined, T_0, T_1, Undefined, Undefined)

FarRect == RectAttr(T_20, Undefined, T_1, T_1, Undefined, Undefined)

\* a run of 'times' equal <rect> elements
Run(times, node) == [times |-> times, node |-> node]

\* lists of maxRectangles and of maxRectangles + 1 <rect> elements, written
\* by their runs: all usable; one more, all usable; the first unusable;
\* only the last usable; the last beyond the canvas
LongRectRuns ==
    {<<Run(maxRectangles, UnitRect)>>,
     <<Run(maxRectangles + 1, UnitRect)>>,
     <<Run(1, ZeroRect), Run(maxRectangles, UnitRect)>>,
     <<Run(maxRectangles, ZeroRect), Run(1, UnitRect)>>,
     <<Run(maxRectangles, UnitRect), Run(1, FarRect)>>}

\* the rect child of the decoded root: absent, one node, or a list of nodes
RectChildren ==
    {[kind |-> "none", node |-> NoNode, nodes |-> <<>>]}
    \cup {[kind |-> "single", node |-> r, nodes |-> <<>>] : r \in RectNodes}
    \cup {[kind |-> "array", node |-> NoNode, nodes |-> rs] :
              rs \in RectSeqs(MaxRects)}

NoRect == [kind |-> "none", node |-> NoNode, nodes |-> <<>>]

NoSvg ==
    [attrs |-> [width |-> Undefined, height |-> Undefined,
                viewBox |-> Undefined],
     rect |-> NoRect]

\* the trees the XML decode can produce
Trees ==
    {[hasSvg |-> FALSE, svg |-> NoSvg]}
    \cup {[hasSvg |-> TRUE, svg |-> [attrs |-> a, rect |-> NoRect]] :
              a \in RootAttrs}
    \cup {[hasSvg |-> TRUE, svg |-> [attrs |-> a, rect |-> r]] :
              a \in CanvasAttrs, r \in RectChildren}
    \cup {[hasSvg |-> TRUE,
           svg |-> [attrs |-> [width |-> T_20, height |-> T_10,
                               viewBox |-> Undefined],
                    rect |-> [kind |-> "runs", node |-> NoNode,
                              nodes |-> <<>>, runs |-> rs]]] :
              rs \in LongRectRuns}

ByteLengths == {maxFileSizeBytes, maxFileSizeBytes + 1}

\* a text is modelled by its UTF-8 byte length and by what the XML decode
\* makes of it: a rejection (not well-formed) or a tree
Contents ==
    {[byteLength |-> n, wellFormed |-> FALSE,
      tree |-> [hasSvg |-> FALSE, svg |-> NoSvg]] : n \in ByteLengths}
    \cup {[byteLength |-> n, wellFormed |-> TRUE, tree |-> t] :
              n \in ByteLengths, t \in Trees}

NoContent ==
    [byteLength |-> 0, wellFormed |-> FALSE,
     tree |-> [hasSvg |-> FALSE, svg |-> NoSvg]]

----------------------------------------------------------------------------
(* Promises *)

Pending == [state |-> "pending", value |-> DecodeError]

\* a promise that every settlement overwrites
SettleAgain(p, state, value) == [state |-> state, value |-> value]

\* settling a promise: only the first settlement takes effect
Settle(p, state, value) ==
    IF p.state = "pending" THEN [state |-> state, value |-> value] ELSE p

NoOutcome == [kind |-> "none"]

----------------------------------------------------------------------------
(* State machine of the parseContent calls *)

\* longest number of calls in flight together
MaxCalls == 2

\* the number of reprocess requests made for the design
MaxReprocess == 2

\* the number of execute calls of the hook
MaxExecutes == 3

CallIds == 1..MaxCalls

NoCall ==
    [svgContent |-> NoContent,
     pc |-> "idle",
     parsePromise |-> "none",
     timer |-> "none",
     race |-> Pending,
     firstSettled |-> "none",
     outcome |-> NoOutcome,
     settled |-> 0,
     decodeCalls |-> 0]

NoArg == [fn |-> "none"]

NoRet == [fn |-> "none"]

\* the counters of a MetricsCollector nothing was counted in
NoMetrics ==
    [svg_rectangles_truncated_total |-> 0,
     svg_parsed_total_true |-> 0,
     svg_parsed_total_false |-> 0,
     designs_uploaded_total |-> 0,
     designs_processing_succeeded_total |-> 0,
     designs_processing_failed_total |-> 0,
     designs_deleted_total |-> 0]

\* the designs collection before the design is created
NoDesign ==
    [state |-> "absent",
     file |-> NoContent,
     filePresent |-> FALSE,
     status |-> "none",
     parsed |-> [kind |-> "none"],
     errorMessage |-> [kind |-> "none"]]

\* a request that was not made
NoRequest == [pc |-> "idle"]

NoRequests ==
    [reprocess |-> [q \in 1..MaxReprocess |-> NoRequest],
     delete |-> NoRequest]

\* the state useState starts a useAsync hook with, and no execute call
NoHook ==
    [state |-> [data |-> [kind |-> "null"],
                error |-> [kind |-> "null"],
                isLoading |-> FALSE],
     calls |-> <<>>]

Init ==
    /\ call = [c \in CallIds |-> NoCall]
    /\ metrics = NoMetrics
    /\ design = NoDesign
    /\ processRuns = <<>>
    /\ requests = NoRequests
    /\ hook = NoHook
    /\ arg = NoArg
    /\ ret = NoRet

\* a size check that also rejects a text of exactly the limit
exceedsMaxSizeInclusive(contentSize) == contentSize >= maxFileSizeBytes

\* the size check of parseContent
exceedsMaxSize(contentSize) == contentSize > maxFileSizeBytes

\* the calls after call c has run parseContent up to its await: the size
\* check, then the decode is started and withTimeout arms its timer
callStarted(c, content) ==
    [call EXCEPT ![c] =
        IF exceedsMaxSize(content.byteLength)
        THEN [@ EXCEPT !.svgContent = content,
                       !.outcome = Thrown(SizeError),
                       !.settled = @ + 1,
                       !.pc = "done"]
        ELSE [@ EXCEPT !.svgContent = content,
                       !.parsePromise = "pending",
                       !.decodeCalls = @ + 1,
                       !.timer = "armed",
                       !.race = Pending,
                       !.pc = "awaiting"]]

\* parseContent is called as call c and runs up to its await
ParseContentStart(c, content) ==
    /\ call[c].pc = "idle"
    /\ call' = callStarted(c, content)
    /\ UNCHANGED <<metrics, arg, ret, design, processRuns, requests, hook>>

\* a caller invokes parseContent with some text
ParseContentCall ==
    /\ call[1].pc = "idle"
    /\ \E content \in Contents : ParseContentStart(1, content)

\* the decode of call c settles: it resolves with the tree or rejects
DecodeSettles(c) ==
    /\ call[c].parsePromise = "pending"
    /\ call' = [call EXCEPT ![c] =
           [@ EXCEPT !.parsePromise = IF call[c].svgContent.wellFormed
                                      THEN "fulfilled" ELSE "rejected",
                     !.race = IF call[c].svgContent.wellFormed
                              THEN Settle(@, "fulfilled",
                                          call[c].svgContent.tree)
                              ELSE Settle(@, "rejected", DecodeError),
                     !.firstSettled = IF @ = "none" THEN "decode" ELSE @]]
    /\ UNCHANGED <<metrics, arg, ret, design, processRuns, requests, hook>>

\* the setTimeout callback of withTimeout runs for call c
TimerFires(c) ==
    /\ call[c].timer = "armed"
    /\ call' = [call EXCEPT ![c] =
           [@ EXCEPT !.timer = "fired",
                     !.race = Settle(@, "rejected",
                                     TimeoutError("XML parsing",
                                                  parseTimeoutMs)),
                     !.firstSettled = IF @ = "none" THEN "timer" ELSE @]]
    /\ UNCHANGED <<metrics, arg, ret, design, processRuns, requests, hook>>

\* the metrics.increment calls of parseContent for the outcome o of the
\* settled race p
metricsAfter(m, p, o) ==
    LET truncated ==
            /\ o.kind = "returned"
            /\ Len(rectArrayOf(p.value.svg.rect)) > maxRectangles
        m1 == IF truncated
              THEN [m EXCEPT !.svg_rectangles_truncated_total = @ + 1]
              ELSE m
    IN  IF o.kind # "returned" THEN m1
        ELSE IF Len(o.value.issues) > 0
             THEN [m1 EXCEPT !.svg_parsed_total_true = @ + 1]
             ELSE [m1 EXCEPT !.svg_parsed_total_false = @ + 1]

\* a service that keeps the awaited value in a field shared by its calls:
\* call c resumes with the value of the first call whose race has settled
ParseContentResumeShared(c) ==
    LET d == CHOOSE d \in CallIds :
                 /\ call[d].race.state # "pending"
                 /\ \A e \in CallIds :
                        call[e].race.state # "pending" => d <= e
    IN  /\ call[c].pc = "awaiting"
        /\ call[c].race.state # "pending"
        /\ call' = [call EXCEPT ![c] =
               [@ EXCEPT !.outcome = afterAwait(call[d].race),
                         !.settled = @ + 1,
                         !.pc = "done"]]
        /\ metrics' = metricsAfter(metrics, call[d].race,
                                   afterAwait(call[d].race))
        /\ UNCHANGED <<arg, ret, design, processRuns, requests, hook>>

\* call c resumes after the await and runs to its end
ParseContentResume(c) ==
    /\ call[c].pc = "awaiting"
    /\ call[c].race.state # "pending"
    /\ call' = [call EXCEPT ![c] =
           [@ EXCEPT !.outcome = afterAwait(call[c].race),
                     !.settled = @ + 1,
                     !.pc = "done"]]
    /\ metrics' = metricsAfter(metrics, call[c].race, afterAwait(call[c].race))
    /\ UNCHANGED <<arg, ret, design, processRuns, requests, hook>>

\* one call at a time, over all the modelled texts
Next ==
    \/ ParseContentCall
    \/ DecodeSettles(1)
    \/ TimerFires(1)
    \/ ParseContentResume(1)

Spec == Init /\ [][Next]_vars

\* the texts of the concurrent calls: too large, malformed, without a root,
\* one rectangle in bounds, one rectangle out of bounds
SharedContents ==
    LET canvas == [width |-> T_20, height |-> T_10, viewBox |-> Undefined]
        doc(node) ==
            [hasSvg |-> TRUE,
             svg |-> [attrs |-> canvas,
                      rect |-> [kind |-> "single", node |-> node,
                                nodes |-> <<>>]]]
        inside == RectAttr(Undefined, T_5, T_5, T_5, Undefined, Undefined)
        outside == RectAttr(T_15, T_5, T_6, T_5, Undefined, Undefined)
    IN  {[byteLength |-> maxFileSizeBytes + 1, wellFormed |-> TRUE,
          tree |-> doc(inside)],
         [byteLength |-> maxFileSizeBytes, wellFormed |-> FALSE,
          tree |-> [hasSvg |-> FALSE, svg |-> NoSvg]],
         [byteLength |-> maxFileSizeBytes, wellFormed |-> TRUE,
          tree |-> [hasSvg |-> FALSE, svg |-> NoSvg]],
         [byteLength |-> maxFileSizeBytes, wellFormed |-> TRUE,
          tree |-> doc(inside)],
         [byteLength |-> maxFileSizeBytes, wellFormed |-> TRUE,
          tree |-> doc(outside)]}

\* a caller invokes parseContent as call c while other calls may be running
ParseContentCallOf(c) ==
    /\ call[c].pc = "idle"
    /\ \E content \in SharedContents : ParseContentStart(c, content)

\* MaxCalls calls of the one svgParserService, interleaved at their awaits
NextCalls ==
    \E c \in CallIds :
        \/ ParseContentCallOf(c)
        \/ DecodeSettles(c)
        \/ TimerFires(c)
        \/ ParseContentResume(c)

SpecCalls == Init /\ [][NextCalls]_vars

----------------------------------------------------------------------------
(* extractFill applied to one attribute object *)

F_blue == <<"b", "l", "u", "e">>

\* fill attributes: missing, empty, two named colours
FillTexts == {Undefined, <<>>, F_red, F_blue}

\* the parts that the style texts are made of: what stands before the
\* declaration, the property name, the white space around the colon, the
\* value, the white space after it and the rest of the style
StylePrefixes ==
    {<<>>, <<"x", ":", "1", ";">>, <<"f", "i", "l", "l", ":", ";">>}

StyleKeys ==
    {<<"f", "i", "l", "l">>, <<"F", "I", "L", "L">>, <<"F", "i", "l", "l">>,
     <<"f", "i", "l">>}

StyleSpaces == {<<>>, <<" ">>}

StyleValues ==
    {<<>>, <<"r", "e", "d">>, <<"#", "0", "f">>,
     <<"r", "g", "b", "(", "1", ",", "2", ")">>, <<"a", " ", "b">>}

StyleTails ==
    {<<>>, <<";">>, <<";", "f", "i", "l", "l", ":", "b", "l", "u", "e">>}

StyleTexts ==
    {Undefined, <<>>}
    \cup {pre \o key \o sp1 \o <<":">> \o sp2 \o val \o sp3 \o tail :
              pre \in StylePrefixes, key \in StyleKeys, sp1 \in StyleSpaces,
              sp2 \in StyleSpaces, val \in StyleValues, sp3 \in StyleSpaces,
              tail \in StyleTails}

\* the attribute objects that extractFill is applied to
FillArgs ==
    {[fn |-> "extractFill",
      attrs |-> [EmptyAttrs EXCEPT !.fill = f, !.style = st]] :
         f \in FillTexts, st \in StyleTexts}

InitFill ==
    /\ call = [c \in CallIds |-> NoCall]
    /\ metrics = NoMetrics
    /\ design = NoDesign
    /\ processRuns = <<>>
    /\ requests = NoRequests
    /\ hook = NoHook
    /\ arg \in FillArgs
    /\ ret = NoRet

\* extractFill(attrs) returns
ExtractFillApply ==
    /\ arg.fn = "extractFill"
    /\ ret = NoRet
    /\ ret' = [fn |-> "extractFill", value |-> extractFill(arg.attrs)]
    /\ UNCHANGED <<call, metrics, arg, design, processRuns, requests, hook>>

NextFill == ExtractFillApply

SpecFill == InitFill /\ [][NextFill]_vars

----------------------------------------------------------------------------
(* parseNumber applied to one attribute text, alone and with a unit suffix *)

NumberText(text, value) == [text |-> text, value |-> value]

\* attribute texts with the number they stand for; a missing, an empty and
\* an unparsable text stand for the default 0
NumberTexts ==
    {NumberText(T_0, 0), NumberText(T_5, 5), NumberText(T_20, 20),
     NumberText(<<"8", "0", "0">>, 800), NumberText(T_m3, 0 - 3),
     NumberText(<<"+", "7">>, 7), NumberText(<<" ", "1", "2">>, 12),
     NumberText(<<"0", "0", "7">>, 7), NumberText(Undefined, 0),
     NumberText(<<>>, 0), NumberText(T_abc, 0), NumberText(<<"-">>, 0)}

\* unit suffixes
UnitSuffixes ==
    {<<>>, <<"p", "x">>, <<"e", "m">>, <<"r", "e", "m">>, <<"p", "t">>,
     <<"%">>, <<" ", "p", "x">>}

\* the attribute text made of a number text and a suffix
WithSuffix(text, suffix) ==
    IF text = Undefined THEN Undefined ELSE text \o suffix

NumberArgs ==
    {[fn |-> "parseNumber", number |-> n, suffix |-> u] :
         n \in NumberTexts, u \in UnitSuffixes}
    \ {[fn |-> "parseNumber", number |-> NumberText(Undefined, 0),
         suffix |-> u] : u \in UnitSuffixes \ {<<>>}}

InitNumber ==
    /\ call = [c \in CallIds |-> NoCall]
    /\ metrics = NoMetrics
    /\ design = NoDesign
    /\ processRuns = <<>>
    /\ requests = NoRequests
    /\ hook = NoHook
    /\ arg \in NumberArgs
    /\ ret = NoRet

\* parseNumber(value, 0) returns, for the text with its suffix and alone
ParseNumberApply ==
    /\ arg.fn = "parseNumber"
    /\ ret = NoRet
    /\ ret' = [fn |-> "parseNumber",
               suffixed |-> parseNumber(WithSuffix(arg.number.text,
                                                   arg.suffix), 0),
               alone |-> parseNumber(arg.number.text, 0)]
    /\ UNCHANGED <<call, metrics, arg, design, processRuns, requests, hook>>

\* a root whose width and height are the given text, without viewBox
RootOf(text) == [width |-> text, height |-> text, viewBox |-> Undefined]

\* parseDimensions returns for a root with the text as width and height
ParseDimensionsApply ==
    /\ arg.fn = "parseNumber"
    /\ ret = NoRet
    /\ ret' = [fn |-> "parseDimensions",
               suffixed |-> parseDimensions(RootOf(WithSuffix(arg.number.text,
                                                              arg.suffix))),
               alone |-> parseDimensions(RootOf(arg.number.text))]
    /\ UNCHANGED <<call, metrics, arg, design, processRuns, requests, hook>>

\* a <rect> placed at (text, text) with a size of 5 x 5, and a <rect>
\* without x and y whose width and height are the text
PlacedRect(text) == RectAttr(text, text, T_5, T_5, Undefined, Undefined)

SizedRect(text) ==
    RectAttr(Undefined, Undefined, text, text, Undefined, Undefined)

\* the loop body runs for the two rectangles on a canvas 1000 x 1000
ItemOfApply ==
    /\ arg.fn = "parseNumber"
    /\ ret = NoRet
    /\ LET suffixed == WithSuffix(arg.number.text, arg.suffix)
       IN  ret' = [fn |-> "itemOf",
                   suffixed |-> <<itemOf(PlacedRect(suffixed), 1000, 1000),
                                  itemOf(SizedRect(suffixed), 1000, 1000)>>,
                   alone |-> <<itemOf(PlacedRect(arg.number.text), 1000, 1000),
                               itemOf(SizedRect(arg.number.text), 1000, 1000)>>]
    /\ UNCHANGED <<call, metrics, arg, design, processRuns, requests, hook>>

NextNumber ==
    \/ ParseNumberApply
    \/ ParseDimensionsApply
    \/ ItemOfApply

SpecNumber == InitNumber /\ [][NextNumber]_vars

----------------------------------------------------------------------------
(* parseFile: read the file, check its size, delegate to parseContent *)

\* what fs.readFile rejects with
ReadError ==
    [name |-> "Error", text |-> "ENOENT: no such file or directory",
     operation |-> "", num |-> 0]

\* the files: one that cannot be read, and one for every modelled text
Files ==
    {[fn |-> "parseFile", readable |-> FALSE, content |-> NoContent]}
    \cup {[fn |-> "parseFile", readable |-> TRUE, content |-> content] :
              content \in Contents}

InitFile ==
    /\ call = [c \in CallIds |-> NoCall]
    /\ metrics = NoMetrics
    /\ design = NoDesign
    /\ processRuns = <<>>
    /\ requests = NoRequests
    /\ hook = NoHook
    /\ arg \in Files
    /\ ret = NoRet

\* parseFile is called and awaits fileService.readFile
ParseFileCall ==
    /\ arg.fn = "parseFile"
    /\ ret = NoRet
    /\ ret' = [fn |-> "parseFile", pc |-> "reading", reads |-> 1,
               outcome |-> NoOutcome]
    /\ UNCHANGED <<call, metrics, arg, design, processRuns, requests, hook>>

\* a catch block that wraps every error
parseFileCatchWrapAll(error) == ReadOrParseError(error.text)

\* the catch block of parseFile: an SVGParseError is rethrown, any other
\* error is wrapped with its message
parseFileCatch(error) ==
    IF error.name = "SVGParseError" THEN error
    ELSE ReadOrParseError(error.text)

\* the read settles and parseFile goes on: a failed read is caught, a text
\* above the size limit is rejected, any other text is handed to
\* parseContent, which runs up to its own await
ReadSettles ==
    /\ ret # NoRet
    /\ ret.fn = "parseFile"
    /\ ret.pc = "reading"
    /\ IF ~arg.readable
       THEN /\ ret' = [ret EXCEPT !.pc = "done",
                                  !.outcome = Thrown(parseFileCatch(ReadError))]
            /\ UNCHANGED call
       ELSE IF arg.content.byteLength > maxFileSizeBytes
       THEN /\ ret' = [ret EXCEPT !.pc = "done",
                                  !.outcome =
                                      Thrown(parseFileCatch(FileSizeError))]
            /\ UNCHANGED call
       ELSE /\ ret' = [ret EXCEPT !.pc = "awaiting"]
            /\ call' = callStarted(1, arg.content)
    /\ UNCHANGED <<metrics, arg, design, processRuns, requests, hook>>

\* parseContent has settled and parseFile resumes: it returns the result or
\* its catch block handles the error
ParseFileResume ==
    /\ ret # NoRet
    /\ ret.fn = "parseFile"
    /\ ret.pc = "awaiting"
    /\ call[1].pc = "done"
    /\ ret' = [ret EXCEPT !.pc = "done",
                          !.outcome =
                              IF call[1].outcome.kind = "returned"
                              THEN call[1].outcome
                              ELSE Thrown(parseFileCatch(call[1].outcome.error))]
    /\ UNCHANGED <<call, metrics, arg, design, processRuns, requests, hook>>

NextFile ==
    \/ ParseFileCall
    \/ ReadSettles
    \/ DecodeSettles(1)
    \/ TimerFires(1)
    \/ ParseContentResume(1)
    \/ ParseFileResume

SpecFile == InitFile /\ [][NextFile]_vars

----------------------------------------------------------------------------
(* The design service: create, processWithRetry, reprocess and delete of  *)
(* one design, with the designs collection holding its document.  The     *)
(* counters kept here are those of the design service: the counters of   *)
(* the parser are followed call by call in Spec, and the durations that   *)
(* metrics.timeAsync and metrics.histogram record are not modelled.       *)

\* RETRY_CONFIG
maxAttempts == 3

initialDelayMs == 1000

maxDelayMs == 10000

backoffMultiplier == 2

\* the number of values Math.random takes: k / RandomLevels for k below it
RandomLevels == 2

\* Math.pow for a natural exponent
Power(b, n) ==
    LET pow[i \in 0..n] == IF i = 0 THEN 1 ELSE b * pow[i - 1]
    IN  pow[n]

MinOf(a, b) == IF a < b THEN a ELSE b

\* the base of the wait after the given attempt
baseDelayOf(attempt) ==
    initialDelayMs * Power(backoffMultiplier, attempt - 1)

\* getRetryDelay, with Math.random() returning k / RandomLevels
getRetryDelay(attempt, k) ==
    LET baseDelay == baseDelayOf(attempt)
        jitter == (k * 3 * baseDelay) \div (RandomLevels * 10)
    IN  MinOf(baseDelay + jitter, maxDelayMs)

\* the error of the repository for a document that is not in the collection
NotFoundError ==
    [name |-> "NotFoundError", text |-> "Design '<id>' not found",
     operation |-> "", num |-> 0]

\* a rejection of the database call itself
RepositoryError ==
    [name |-> "MongoError", text |-> "connection lost",
     operation |-> "", num |-> 0]

\* lastError before any attempt has failed
NoLastError ==
    [name |-> "undefined", text |-> "Unknown error", operation |-> "",
     num |-> 0]

NoParsed == [kind |-> "none"]

NoMessage == [kind |-> "none"]

\* errorMessage after an update that sets it to undefined: the driver either
\* clears the field or drops the key and leaves the old message, and the
\* field stands for both until it is written again
UndefinedMessage == [kind |-> "undefined"]

\* the errorMessage the final update of processWithRetry writes
FailedMessage(attempts, lastError) ==
    [kind |-> "Processing failed after <attempts> attempts: <last>",
     attempts |-> attempts, last |-> lastError]

\* the files uploaded as designs: a malformed text and a document with one
\* rectangle, out of bounds
DesignFiles ==
    {file \in SharedContents :
         /\ file.byteLength <= maxFileSizeBytes
         /\ \/ ~file.wellFormed
            \/ /\ file.tree.hasSvg
               /\ file.tree.svg.rect.node.attrs.x # Undefined}

\* the race of withTimeout inside the parseContent call of parseFile, settled
\* by the decode or by the timer
parseFileRace(file, winner) ==
    IF winner = "timer"
    THEN Settle(Pending, "rejected",
                TimeoutError("XML parsing", parseTimeoutMs))
    ELSE IF file.wellFormed THEN Settle(Pending, "fulfilled", file.tree)
    ELSE Settle(Pending, "rejected", DecodeError)

\* parseFile after its parseContent call has settled with o
parseFileSettled(o) ==
    IF o.kind = "returned" THEN o ELSE Thrown(parseFileCatch(o.error))

\* what a whole parseFile call settles with
parseFileOutcome(file, readable, winner) ==
    IF ~readable THEN Thrown(parseFileCatch(ReadError))
    ELSE IF file.byteLength > maxFileSizeBytes
    THEN Thrown(parseFileCatch(FileSizeError))
    ELSE parseFileSettled(afterAwait(parseFileRace(file, winner)))

\* a processWithRetry invocation that has called processAsync for its first
\* attempt, which awaits parseFile; delay is the time of the sleep under way
\* and baseDelay the base of the latest sleep
NewRun ==
    [pc |-> "parsing", attempt |-> 1, parseCalls |-> 1,
     lastError |-> NoLastError, pending |-> NoParsed, delay |-> 0,
     baseDelay |-> 0, error |-> NoLastError]

\* a loop that sleeps after every failed attempt, the last one too
afterFailureAlwaysSleeps(run, error, k) ==
    [run EXCEPT !.lastError = error,
                !.pending = NoParsed,
                !.pc = "sleeping",
                !.baseDelay = baseDelayOf(run.attempt),
                !.delay = getRetryDelay(run.attempt, k)]

\* the catch block of the loop of processWithRetry: the error is kept and,
\* unless this was the last attempt, the run sleeps; after the last attempt
\* the loop ends and the final update is awaited
afterFailure(run, error, k) ==
    IF run.attempt < maxAttempts
    THEN [run EXCEPT !.lastError = error,
                     !.pending = NoParsed,
                     !.pc = "sleeping",
                     !.baseDelay = baseDelayOf(run.attempt),
                     !.delay = getRetryDelay(run.attempt, k)]
    ELSE [run EXCEPT !.lastError = error,
                     !.pending = NoParsed,
                     !.pc = "failing"]

\* the counter incremented when the loop of a run has ended without success
failedCounted(m, run) ==
    IF run.pc = "failing"
    THEN [m EXCEPT !.designs_processing_failed_total = @ + 1]
    ELSE m

\* a run that has ended: its promise has settled and its locals are gone
Ended(run, pc, error) ==
    [NewRun EXCEPT !.pc = pc, !.error = error]

InitDesign ==
    /\ call = [c \in CallIds |-> NoCall]
    /\ metrics = NoMetrics
    /\ design = NoDesign
    /\ processRuns = <<>>
    /\ requests = NoRequests
    /\ hook = NoHook
    /\ arg = NoArg
    /\ ret = NoRet

\* create: the document is stored with status 'processing', the upload is
\* counted and processWithRetry is started without being awaited
Create ==
    /\ design.state = "absent"
    /\ \E file \in DesignFiles :
           design' = [state |-> "stored", file |-> file, filePresent |-> TRUE,
                      status |-> "processing", parsed |-> NoParsed,
                      errorMessage |-> NoMessage]
    /\ metrics' = [metrics EXCEPT !.designs_uploaded_total = @ + 1]
    /\ processRuns' = Append(processRuns, NewRun)
    /\ UNCHANGED <<call, arg, ret, requests, hook>>

\* run after its parseFile call has settled with o: with a result
\* processAsync goes on to its repository update, with an error the loop
\* catches it
afterParse(run, o, k) ==
    IF o.kind = "returned"
    THEN [run EXCEPT !.pc = "updating", !.pending = o.value]
    ELSE afterFailure(run, o.error, k)

\* the parseFile call of run r settles, its read failing when the file was
\* removed
ParseSettles(r) ==
    /\ r <= Len(processRuns)
    /\ processRuns[r].pc = "parsing"
    /\ \E winner \in {"decode", "timer"}, k \in 0..(RandomLevels - 1) :
           /\ processRuns' =
                  [processRuns EXCEPT ![r] =
                      afterParse(@, parseFileOutcome(design.file,
                                                     design.filePresent,
                                                     winner), k)]
           /\ metrics' = failedCounted(metrics, processRuns'[r])
    /\ UNCHANGED <<call, arg, ret, design, requests, hook>>

\* the repository update of processAsync settles for run r: applied, the
\* document is 'completed' with the parsed fields and the run returns; for a
\* missing document or a failed database call the loop catches the error
UpdateSettles(r) ==
    /\ r <= Len(processRuns)
    /\ processRuns[r].pc = "updating"
    /\ \E works \in BOOLEAN, k \in 0..(RandomLevels - 1) :
           IF works /\ design.state = "stored"
           THEN /\ design' = [design EXCEPT
                                  !.status = "completed",
                                  !.parsed = processRuns[r].pending]
                /\ processRuns' = [processRuns EXCEPT ![r] =
                                      Ended(@, "returned", NoLastError)]
                /\ metrics' =
                       [metrics EXCEPT
                            !.designs_processing_succeeded_total = @ + 1]
           ELSE LET run == afterFailure(processRuns[r],
                                        IF works THEN NotFoundError
                                        ELSE RepositoryError, k)
                IN  /\ processRuns' = [processRuns EXCEPT ![r] = run]
                    /\ metrics' = failedCounted(metrics, run)
                    /\ UNCHANGED design
    /\ UNCHANGED <<call, arg, ret, requests, hook>>

\* the sleep of run r is over: the loop goes to the next attempt while the
\* attempt number is within maxAttempts
SleepElapses(r) ==
    /\ r <= Len(processRuns)
    /\ processRuns[r].pc = "sleeping"
    /\ LET run == IF processRuns[r].attempt + 1 <= maxAttempts
                  THEN [processRuns[r] EXCEPT !.attempt = @ + 1,
                                              !.parseCalls = @ + 1,
                                              !.delay = 0,
                                              !.pc = "parsing"]
                  ELSE [processRuns[r] EXCEPT !.attempt = @ + 1,
                                              !.delay = 0,
                                              !.pc = "failing"]
       IN  /\ processRuns' = [processRuns EXCEPT ![r] = run]
           /\ metrics' = failedCounted(metrics, run)
    /\ UNCHANGED <<call, arg, ret, design, requests, hook>>

\* the final update of run r, after the loop, settles: applied, the
\* document is 'error' with the message; it is awaited outside every try
\* block, so its failure rejects the promise of processWithRetry
FinalUpdateSettles(r) ==
    /\ r <= Len(processRuns)
    /\ processRuns[r].pc = "failing"
    /\ \E works \in BOOLEAN :
           IF works /\ design.state = "stored"
           THEN /\ design' = [design EXCEPT
                                  !.status = "error",
                                  !.errorMessage =
                                      FailedMessage(maxAttempts,
                                                    processRuns[r].lastError)]
                /\ processRuns' = [processRuns EXCEPT ![r] =
                                      Ended(@, "returned", NoLastError)]
           ELSE /\ processRuns' = [processRuns EXCEPT ![r] =
                                      Ended(@, "rejected",
                                            IF works THEN NotFoundError
                                            ELSE RepositoryError)]
                /\ UNCHANGED design
    /\ UNCHANGED <<call, metrics, arg, ret, requests, hook>>

\* a reprocess without the status check: the update is awaited for a design
\* in any status
ReprocessFoundAnyStatus(q) ==
    /\ design.state # "absent"
    /\ requests.reprocess[q].pc = "idle"
    /\ \A p \in 1..(q - 1) : requests.reprocess[p].pc # "idle"
    /\ requests' =
           [requests EXCEPT !.reprocess[q].pc =
               IF design.state # "stored" THEN "rejected" ELSE "updating"]
    /\ UNCHANGED <<call, metrics, arg, ret, design, processRuns, hook>>

\* reprocess is called as request q and its findById settles: a missing
\* document rejects the request, a status other than 'error' ends it, and
\* for 'error' the update to 'processing' is awaited
ReprocessFound(q) ==
    /\ design.state # "absent"
    /\ requests.reprocess[q].pc = "idle"
    /\ \A p \in 1..(q - 1) : requests.reprocess[p].pc # "idle"
    /\ requests' =
           [requests EXCEPT !.reprocess[q] =
               IF design.state # "stored"
               THEN [@ EXCEPT !.pc = "rejected"]
               ELSE IF design.status # "error"
               THEN [@ EXCEPT !.pc = "done"]
               ELSE [@ EXCEPT !.pc = "updating"]]
    /\ UNCHANGED <<call, metrics, arg, ret, design, processRuns, hook>>

\* the update of request q settles: the document is 'processing', with
\* errorMessage set to undefined, and processWithRetry is started without
\* being awaited
ReprocessUpdated(q) ==
    /\ requests.reprocess[q].pc = "updating"
    /\ IF design.state = "stored"
       THEN /\ design' = [design EXCEPT !.status = "processing",
                                        !.errorMessage = UndefinedMessage]
            /\ processRuns' = Append(processRuns, NewRun)
            /\ requests' = [requests EXCEPT !.reprocess[q].pc = "done"]
       ELSE /\ requests' = [requests EXCEPT !.reprocess[q].pc = "rejected"]
            /\ UNCHANGED <<design, processRuns>>
    /\ UNCHANGED <<call, metrics, arg, ret, hook>>

\* delete is called and its findById settles: it awaits deleteFile
DeleteFound ==
    /\ design.state # "absent"
    /\ requests.delete.pc = "idle"
    /\ requests' = [requests EXCEPT
                        !.delete.pc = IF design.state = "stored"
                                      THEN "unlinking" ELSE "rejected"]
    /\ UNCHANGED <<call, metrics, arg, ret, design, processRuns, hook>>

\* the file is removed and the delete request awaits the repository
FileDeleted ==
    /\ requests.delete.pc = "unlinking"
    /\ design' = [design EXCEPT !.filePresent = FALSE]
    /\ requests' = [requests EXCEPT !.delete.pc = "deleting"]
    /\ UNCHANGED <<call, metrics, arg, ret, processRuns, hook>>

\* the document is removed from the collection and the deletion is counted
DeleteApplied ==
    /\ requests.delete.pc = "deleting"
    /\ IF design.state = "stored"
       THEN /\ design' = [design EXCEPT !.state = "deleted"]
            /\ requests' = [requests EXCEPT !.delete.pc = "done"]
            /\ metrics' = [metrics EXCEPT !.designs_deleted_total = @ + 1]
       ELSE /\ requests' = [requests EXCEPT !.delete.pc = "rejected"]
            /\ UNCHANGED <<design, metrics>>
    /\ UNCHANGED <<call, arg, ret, processRuns, hook>>

\* a step of run r
RunStep(r) ==
    \/ ParseSettles(r)
    \/ UpdateSettles(r)
    \/ SleepElapses(r)
    \/ FinalUpdateSettles(r)

NextDesign ==
    \/ Create
    \/ \E r \in 1..(MaxReprocess + 1) : ParseSettles(r)
    \/ \E r \in 1..(MaxReprocess + 1) : UpdateSettles(r)
    \/ \E r \in 1..(MaxReprocess + 1) : SleepElapses(r)
    \/ \E r \in 1..(MaxReprocess + 1) : FinalUpdateSettles(r)
    \/ \E q \in 1..MaxReprocess : ReprocessFound(q)
    \/ \E q \in 1..MaxReprocess : ReprocessUpdated(q)
    \/ DeleteFound
    \/ FileDeleted
    \/ DeleteApplied

SpecDesign == InitDesign /\ [][NextDesign]_vars

\* every call of the parser and of the repository settles and every sleep
\* elapses, so that a run or a request under way goes on; whether a
\* reprocess or a delete request is made at all is left open
SpecDesignFair ==
    /\ SpecDesign
    /\ \A r \in 1..(MaxReprocess + 1) :
           WF_vars(RunStep(r))
    /\ \A q \in 1..MaxReprocess : WF_vars(ReprocessUpdated(q))
    /\ WF_vars(FileDeleted \/ DeleteApplied)

----------------------------------------------------------------------------
(* The useAsync hook of one mounted component: its state and the calls of *)
(* execute, each awaiting the promise of asyncFn.                         *)

\* what asyncFn resolves with
HookResponses == {"first", "second"}

\* what asyncFn rejects with
HookError == [name |-> "Error", text |-> "failed", operation |-> "", num |-> 0]

HookNull == [kind |-> "null"]

HookData(value) == [kind |-> "value", value |-> value]

\* the state execute sets before it awaits asyncFn
LoadingState == [data |-> HookNull, error |-> HookNull, isLoading |-> TRUE]

\* the state execute sets after the await, for what asyncFn settled with
SettledState(o) ==
    IF o.kind = "returned"
    THEN [data |-> HookData(o.value), error |-> HookNull, isLoading |-> FALSE]
    ELSE [data |-> HookNull, error |-> o.error, isLoading |-> FALSE]

InitHook ==
    /\ call = [c \in CallIds |-> NoCall]
    /\ metrics = NoMetrics
    /\ design = NoDesign
    /\ processRuns = <<>>
    /\ requests = NoRequests
    /\ hook = NoHook
    /\ arg = NoArg
    /\ ret = NoRet

\* execute is called: it sets the loading state and awaits asyncFn
Execute ==
    /\ Len(hook.calls) < MaxExecutes
    /\ hook' = [state |-> LoadingState,
                calls |-> Append(hook.calls,
                                 [pc |-> "pending", outcome |-> NoOutcome])]
    /\ UNCHANGED <<call, metrics, arg, ret, design, processRuns, requests>>

\* the hook after execute call i has resumed from its await on asyncFn,
\* which settled with o: it sets the state from o, whatever calls were made
\* since
executeResumed(i, o) ==
    [state |-> SettledState(o),
     calls |-> [hook.calls EXCEPT ![i] = [pc |-> "settled", outcome |-> o]]]

\* asyncFn of call i resolves and execute resumes
Resolves(i) ==
    /\ i <= Len(hook.calls)
    /\ hook.calls[i].pc = "pending"
    /\ \E value \in HookResponses :
           hook' = executeResumed(i, Returned(value))
    /\ UNCHANGED <<call, metrics, arg, ret, design, processRuns, requests>>

\* asyncFn of call i rejects and execute resumes in its catch block
Rejects(i) ==
    /\ i <= Len(hook.calls)
    /\ hook.calls[i].pc = "pending"
    /\ hook' = executeResumed(i, Thrown(HookError))
    /\ UNCHANGED <<call, metrics, arg, ret, design, processRuns, requests>>

NextHook ==
    \/ Execute
    \/ \E i \in 1..MaxExecutes : Resolves(i)
    \/ \E i \in 1..MaxExecutes : Rejects(i)

SpecHook == InitHook /\ [][NextHook]_vars

\* the fields of the first call
svgContent == call[1].svgContent

pc == call[1].pc

parsePromise == call[1].parsePromise

timer == call[1].timer

race == call[1].race

firstSettled == call[1].firstSettled

outcome == call[1].outcome

settled == call[1].settled

decodeCalls == call[1].decodeCalls

----------------------------------------------------------------------------
(* Vocabulary of the properties *)

Done == pc = "done"

\* the call was made with a text of acceptable size
SizeOk == pc # "idle" /\ svgContent.byteLength <= maxFileSizeBytes

TimeoutErr == TimeoutError("XML parsing", parseTimeoutMs)

\* the decode delivered its tree to parseContent
Decoded == SizeOk /\ firstSettled = "decode" /\ svgContent.wellFormed

\* the decoded tree has a root svg element
Rooted == Decoded /\ svgContent.tree.hasSvg

RootAttrsOfCall == svgContent.tree.svg.attrs

\* value of a root attribute text, 0 when missing or unparsable
AttrValue(text) == parseNumber(text, 0)

ResolvedW == parseDimensions(RootAttrsOfCall).width

ResolvedH == parseDimensions(RootAttrsOfCall).height

----------------------------------------------------------------------------
(* C1: the fatal checks are applied in the order size, decode (timeout or  *)
(* malformed), root element, positive dimensions, dimension ceiling: a     *)
(* finished call reports the error of the earliest violated check, and it  *)
(* returns a result only when no check is violated.                        *)
C1_CheckOrder ==
    Done =>
        /\ ~SizeOk => outcome = Thrown(SizeError)
        /\ (SizeOk /\ firstSettled = "timer") => outcome = Thrown(TimeoutErr)
        /\ (SizeOk /\ firstSettled = "decode" /\ ~svgContent.wellFormed)
               => outcome = Thrown(InvalidXMLError)
        /\ (Decoded /\ ~svgContent.tree.hasSvg) => outcome = Thrown(NoRootError)
        /\ (Rooted /\ (ResolvedW <= 0 \/ ResolvedH <= 0))
               => outcome = Thrown(NotPositiveError)
        /\ (Rooted /\ ResolvedW > 0 /\ ResolvedH > 0
                   /\ (ResolvedW > maxDimension \/ ResolvedH > maxDimension))
               => outcome = Thrown(TooLargeError)
        /\ outcome.kind = "returned"
               => /\ Rooted
                  /\ ResolvedW > 0 /\ ResolvedH > 0
                  /\ ResolvedW <= maxDimension /\ ResolvedH <= maxDimension

\* a finished call whose root violates both dimension checks and is
\* reported as not positive
C1_Witness ==
    /\ Done /\ Rooted
    /\ ResolvedW <= 0 /\ ResolvedH > maxDimension
    /\ outcome = Thrown(NotPositiveError)

(* C2: the decode races against the timer. When the timer fires first the  *)
(* call fails with the timeout error whatever the decode does later; when  *)
(* the decode settles first the later timer changes nothing. The call's    *)
(* promise settles at most once, a call is never left waiting once the     *)
(* timer has fired, and nothing that happens after the outcome is          *)
(* delivered changes the outcome, the race or the counters.                *)
C2_Settled ==
    /\ settled <= 1
    /\ (settled = 1) <=> Done
    /\ Done <=> outcome # NoOutcome
    /\ (pc = "awaiting" /\ timer = "fired") => race.state # "pending"
    /\ (Done /\ SizeOk /\ firstSettled = "timer")
           => outcome = Thrown(TimeoutErr)
    /\ (Done /\ SizeOk /\ firstSettled = "decode")
           => /\ outcome # Thrown(TimeoutErr)
              /\ svgContent.wellFormed => outcome = parseTree(svgContent.tree)

C2_RaceOutcome ==
    /\ []C2_Settled
    /\ [][Done => /\ outcome' = outcome
                  /\ settled' = settled
                  /\ metrics' = metrics
                  /\ race' = race]_vars

\* the timer fired first, the decode settled afterwards, and the call has
\* failed with the timeout error
C2_Witness ==
    /\ Done
    /\ firstSettled = "timer"
    /\ parsePromise \in {"fulfilled", "rejected"}
    /\ outcome = Thrown(TimeoutErr)

(* C3: a text longer than maxFileSizeBytes fails with the size error,      *)
(* which names the limit in MB, and neither the decode nor the timer is    *)
(* ever started for it; a text of exactly maxFileSizeBytes passes the size *)
(* check and is decoded.                                                   *)
C3_SizeGate ==
    pc # "idle" =>
        /\ svgContent.byteLength > maxFileSizeBytes
               => /\ outcome = Thrown(SizeError)
                  /\ outcome.error.num * 1024 * 1024 = maxFileSizeBytes
                  /\ decodeCalls = 0
                  /\ parsePromise = "none"
                  /\ timer = "none"
                  /\ race = Pending
                  /\ metrics.svg_parsed_total_true = 0
                  /\ metrics.svg_parsed_total_false = 0
        /\ svgContent.byteLength = maxFileSizeBytes
               => /\ decodeCalls = 1
                  /\ parsePromise # "none"
                  /\ timer # "none"
                  /\ outcome # Thrown(SizeError)

\* a call with a text one byte over the limit has failed
C3_Witness ==
    /\ Done
    /\ svgContent.byteLength = maxFileSizeBytes + 1
    /\ outcome = Thrown(SizeError)

(* C4: a decode rejection that reaches parseContent yields the invalid-XML *)
(* error and never the timeout error; a timer that fires before the decode *)
(* settles yields the timeout error, which carries the operation name and  *)
(* the configured duration, and never the invalid-XML error; the decode is *)
(* started at most once per call.                                          *)
C4_DecodeFailures ==
    /\ decodeCalls <= 1
    /\ (Done /\ SizeOk /\ firstSettled = "decode" /\ ~svgContent.wellFormed)
           => outcome = Thrown(InvalidXMLError)
    /\ (Done /\ SizeOk /\ firstSettled = "timer")
           => /\ outcome.kind = "thrown"
              /\ outcome.error # InvalidXMLError
              /\ outcome.error.name = "SVGParseError"
              /\ outcome.error.operation = "XML parsing"
              /\ outcome.error.num = parseTimeoutMs

\* a malformed text whose decode rejected before the timer has failed with
\* the invalid-XML error
C4_Witness ==
    /\ Done /\ SizeOk
    /\ firstSettled = "decode" /\ ~svgContent.wellFormed
    /\ outcome = Thrown(InvalidXMLError)

----------------------------------------------------------------------------
(* Vocabulary of the properties about results *)

Succeeded == Done /\ outcome.kind = "returned"

NodesOfCall == rectArrayOf(svgContent.tree.svg.rect)

NodeAttrs(node) == IF node.hasAttrs THEN node.attrs ELSE EmptyAttrs

\* a <rect> with a usable size: width and height both parse to a positive
\* number
UsableRect(node) ==
    /\ AttrValue(NodeAttrs(node).width) > 0
    /\ AttrValue(NodeAttrs(node).height) > 0

\* the first n elements of a list, or all of it when it is shorter
FirstNodes(nodes, n) ==
    [i \in 1..(IF Len(nodes) < n THEN Len(nodes) ELSE n) |-> nodes[i]]

\* the <rect> elements of the call's document that the loop runs over
ProcessedOfCall == FirstNodes(NodesOfCall, maxRectangles)

\* the processed part of a document with its unusable <rect> elements
\* removed
WithoutUnusable(tree) ==
    [tree EXCEPT !.svg.rect =
        [kind |-> "array", node |-> NoNode,
         nodes |-> SelectSeq(FirstNodes(rectArrayOf(tree.svg.rect),
                                        maxRectangles), UsableRect)]]

HasIssue(result, issue) ==
    \E i \in 1..Len(result.issues) : result.issues[i] = issue

(* C5: the viewBox fallback replaces only a value that is <= 0: a root     *)
(* width attribute that resolves to a positive number is the svgWidth of   *)
(* the result, and a positive height attribute is the svgHeight, whatever  *)
(* the other attribute and the viewBox are.                                *)
C5_PositiveAttributeKept ==
    Succeeded =>
        /\ AttrValue(RootAttrsOfCall.width) > 0
               => outcome.value.svgWidth = AttrValue(RootAttrsOfCall.width)
        /\ AttrValue(RootAttrsOfCall.height) > 0
               => outcome.value.svgHeight = AttrValue(RootAttrsOfCall.height)

\* the viewBox texts of the model, by how they split
FourFieldViewBoxes == {VB_space, VB_comma, VB_mixed, VB_big, VB_px}

OtherViewBoxes == {Undefined, VB_three, VB_leading}

(* C6: for a root without usable width and height, a viewBox that splits   *)
(* into exactly 4 fields gives the dimensions: the numeric values of       *)
(* fields 3 and 4 are the resolved width and height (30 and 15 for         *)
(* "0 0 30 15", for "0,0,30,15" and for "0, 0  30,15" alike), and a        *)
(* viewBox that does not split into exactly 4 fields is ignored, so the    *)
(* call fails the positivity check.                                        *)
C6_ViewBoxFallback ==
    (Done /\ Rooted
          /\ AttrValue(RootAttrsOfCall.width) <= 0
          /\ AttrValue(RootAttrsOfCall.height) <= 0) =>
        LET viewBox == RootAttrsOfCall.viewBox
            parts == SplitSeparators(viewBox)
            numeric(field) == ~parseFloat(field).nan
        IN  /\ viewBox \in FourFieldViewBoxes <=>
                   (viewBox # Undefined /\ Len(parts) = 4)
            /\ viewBox \in {VB_space, VB_comma, VB_mixed}
                   => /\ outcome.kind = "returned"
                      /\ outcome.value.svgWidth = 30
                      /\ outcome.value.svgHeight = 15
            /\ (viewBox \in FourFieldViewBoxes
                    /\ numeric(parts[3]) /\ numeric(parts[4]))
                   => /\ ResolvedW = parseFloat(parts[3]).val
                      /\ ResolvedH = parseFloat(parts[4]).val
                      /\ outcome.kind = "returned"
                             => /\ outcome.value.svgWidth = ResolvedW
                                /\ outcome.value.svgHeight = ResolvedH
            /\ viewBox \in OtherViewBoxes
                   => outcome = Thrown(NotPositiveError)

\* a root with only a comma-separated viewBox has been parsed
C6_Witness ==
    /\ Succeeded
    /\ RootAttrsOfCall.width = Undefined /\ RootAttrsOfCall.height = Undefined
    /\ RootAttrsOfCall.viewBox = VB_comma
    /\ outcome.value.svgWidth = 30 /\ outcome.value.svgHeight = 15

C8_UnusableRectsDropped ==
    /\ Succeeded
           => LET processed == ProcessedOfCall
                  result == outcome.value
              IN  /\ \A i \in 1..Len(result.items) :
                         /\ result.items[i].width > 0
                         /\ result.items[i].height > 0
                  /\ outcome = parseTree(WithoutUnusable(svgContent.tree))
                  /\ Len(result.items) = Len(SelectSeq(processed, UsableRect))
                  /\ HasIssue(result, "EMPTY")
                         <=> \A i \in 1..Len(processed) :
                                 ~UsableRect(processed[i])
                  /\ HasIssue(result, "OUT_OF_BOUNDS")
                         => \E i \in 1..Len(processed) :
                                LET a == NodeAttrs(processed[i])
                                IN  /\ UsableRect(processed[i])
                                    /\ \/ AttrValue(a.x) + AttrValue(a.width)
                                               > result.svgWidth
                                       \/ AttrValue(a.y) + AttrValue(a.height)
                                               > result.svgHeight
    /\ (Done /\ Rooted
             /\ ResolvedW \in 1..maxDimension /\ ResolvedH \in 1..maxDimension)
           => outcome.kind = "returned"

\* a result for a document with an unusable <rect> next to a usable one
C8_Witness ==
    /\ Succeeded
    /\ Len(NodesOfCall) = 2
    /\ ~UsableRect(NodesOfCall[1])
    /\ UsableRect(NodesOfCall[2])
    /\ Len(outcome.value.items) = 1
    /\ ~HasIssue(outcome.value, "EMPTY")

(* C9: in every result, isOutOfBounds of a rectangle is true exactly when  *)
(* x + width > svgWidth or y + height > svgHeight, for the svgWidth and    *)
(* svgHeight of that result; a rectangle whose right and bottom edges lie  *)
(* on the canvas edge is in bounds.                                        *)
C9_OutOfBoundsFlag ==
    Succeeded =>
        \A i \in 1..Len(outcome.value.items) :
            LET item == outcome.value.items[i]
            IN  item.isOutOfBounds
                    <=> \/ item.x + item.width > outcome.value.svgWidth
                        \/ item.y + item.height > outcome.value.svgHeight

\* a result with a rectangle whose right and bottom edges are the canvas
\* edges, flagged in bounds
C9_Witness ==
    /\ Succeeded
    /\ \E i \in 1..Len(outcome.value.items) :
           LET item == outcome.value.items[i]
           IN  /\ item.x + item.width = outcome.value.svgWidth
               /\ item.y + item.height = outcome.value.svgHeight
               /\ ~item.isOutOfBounds

(* C10: OUT_OF_BOUNDS is reported for every result in which a rectangle    *)
(* extends beyond the canvas [0, svgWidth] x [0, svgHeight] on any side,   *)
(* also when it starts left of x = 0 or above y = 0.                       *)
C10_OutOfBoundsAnySide ==
    Succeeded =>
        ((\E i \in 1..Len(outcome.value.items) :
              LET item == outcome.value.items[i]
              IN  \/ item.x < 0
                  \/ item.y < 0
                  \/ item.x + item.width > outcome.value.svgWidth
                  \/ item.y + item.height > outcome.value.svgHeight)
         => HasIssue(outcome.value, "OUT_OF_BOUNDS"))

\* how many times an issue occurs in the issues of a result
IssueCount(result, issue) ==
    Len(SelectSeq(result.issues, LAMBDA s : s = issue))

\* the input passed the five fatal checks
PassedGates ==
    /\ Done
    /\ Rooted
    /\ ResolvedW \in 1..maxDimension
    /\ ResolvedH \in 1..maxDimension

\* the item that a usable <rect> stands for on a canvas svgWidth x svgHeight
ItemOfNode(node, svgWidth, svgHeight) ==
    LET a == NodeAttrs(node)
    IN  [x |-> AttrValue(a.x), y |-> AttrValue(a.y),
         width |-> AttrValue(a.width), height |-> AttrValue(a.height),
         fill |-> extractFill(a),
         isOutOfBounds |->
             \/ AttrValue(a.x) + AttrValue(a.width) > svgWidth
             \/ AttrValue(a.y) + AttrValue(a.height) > svgHeight]

(* C11: in every result, issues contains EMPTY exactly once when           *)
(* itemsCount = 0 and not at all when itemsCount > 0, whether the document *)
(* has no <rect>, only unusable ones, or usable ones only beyond the first *)
(* maxRectangles.                                                          *)
C11_EmptyIssue ==
    Succeeded =>
        LET result == outcome.value
        IN  /\ result.itemsCount = 0 => IssueCount(result, "EMPTY") = 1
            /\ result.itemsCount > 0 => IssueCount(result, "EMPTY") = 0
            /\ result.itemsCount >= 0

\* a result with EMPTY for a document whose only usable <rect> lies beyond
\* the first maxRectangles
C11_Witness ==
    /\ Succeeded
    /\ LET nodes == NodesOfCall
       IN  /\ Len(nodes) > maxRectangles
           /\ UsableRect(nodes[Len(nodes)])
    /\ outcome.value.itemsCount = 0
    /\ IssueCount(outcome.value, "EMPTY") = 1

(* C12: in every result, issues contains OUT_OF_BOUNDS exactly once when   *)
(* some rectangle of items has isOutOfBounds = true and not at all         *)
(* otherwise; a <rect> that was dropped or cut off by truncation is not in *)
(* items and so never sets the flag.                                       *)
C12_OutOfBoundsIssue ==
    Succeeded =>
        LET result == outcome.value
            flagged == \E i \in 1..Len(result.items) :
                           result.items[i].isOutOfBounds
        IN  IssueCount(result, "OUT_OF_BOUNDS") = IF flagged THEN 1 ELSE 0

\* a result with two rectangles out of bounds and OUT_OF_BOUNDS once
C12_Witness ==
    /\ Succeeded
    /\ Len(outcome.value.items) = 2
    /\ outcome.value.items[1].isOutOfBounds
    /\ outcome.value.items[2].isOutOfBounds
    /\ IssueCount(outcome.value, "OUT_OF_BOUNDS") = 1

(* C13: in every result, itemsCount is the length of items, and items is   *)
(* the usable <rect> elements among the processed ones, one item for each, *)
(* in document order, with the geometry and fill of its <rect>.            *)
C13_ItemsInDocumentOrder ==
    Succeeded =>
        LET result == outcome.value
            kept == SelectSeq(ProcessedOfCall, UsableRect)
        IN  /\ result.itemsCount = Len(result.items)
            /\ Len(result.items) = Len(kept)
            /\ \A i \in 1..Len(kept) :
                   result.items[i]
                       = ItemOfNode(kept[i], result.svgWidth, result.svgHeight)

\* a result with two different rectangles in the order of the document
C13_Witness ==
    /\ Succeeded
    /\ Len(NodesOfCall) = 2
    /\ outcome.value.itemsCount = 2
    /\ outcome.value.items[1] # outcome.value.items[2]
    /\ outcome.value.items[1].x = AttrValue(NodeAttrs(NodesOfCall[1]).x)
    /\ outcome.value.items[2].x = AttrValue(NodeAttrs(NodesOfCall[2]).x)
    /\ outcome.value.items[1].x # outcome.value.items[2].x

(* C14: a document with more than maxRectangles <rect> elements does not   *)
(* fail once past the fatal checks: one truncation event is recorded and   *)
(* only the first maxRectangles elements are processed, so itemsCount <=   *)
(* maxRectangles in every result, the items are the usable ones among the  *)
(* first maxRectangles elements (truncation comes before the dropping),    *)
(* and when all of more than maxRectangles elements are usable the result  *)
(* has exactly maxRectangles items.                                        *)
C14_Truncation ==
    /\ Succeeded =>
           LET result == outcome.value
               nodes == NodesOfCall
               first == FirstNodes(nodes, maxRectangles)
           IN  /\ result.itemsCount <= maxRectangles
               /\ result.itemsCount = Len(SelectSeq(first, UsableRect))
               /\ (/\ Len(nodes) > maxRectangles
                   /\ \A i \in 1..Len(nodes) : UsableRect(nodes[i]))
                      => result.itemsCount = maxRectangles
    /\ (PassedGates /\ Len(NodesOfCall) > maxRectangles)
           => outcome.kind = "returned"
    /\ metrics.svg_rectangles_truncated_total
           = IF PassedGates /\ Len(NodesOfCall) > maxRectangles THEN 1 ELSE 0

\* a result for maxRectangles + 1 <rect> elements of which the first is
\* unusable: one truncation event and maxRectangles - 1 items
C14_Witness ==
    /\ Succeeded
    /\ LET nodes == NodesOfCall
       IN  /\ Len(nodes) = maxRectangles + 1
           /\ ~UsableRect(nodes[1])
           /\ \A i \in 2..Len(nodes) : UsableRect(nodes[i])
    /\ outcome.value.itemsCount = maxRectangles - 1
    /\ metrics.svg_rectangles_truncated_total = 1

(* C15: in every result, coverageRatio is the sum of width * height over   *)
(* the rectangles of items divided by svgWidth * svgHeight, rounded to the *)
(* nearest 1/10000 (a half rounds up); overlaps are not subtracted, so the *)
(* ratio may exceed 1; it is 0 when items is empty; the canvas area is     *)
(* positive. coverageRatio is held in units of 1/10000.                    *)
C15_CoverageRatio ==
    Succeeded =>
        LET result == outcome.value
            total == totalRectAreaOf(result.items)
            area == result.svgWidth * result.svgHeight
        IN  /\ result.svgWidth > 0
            /\ result.svgHeight > 0
            /\ IF Len(result.items) = 0 THEN result.coverageRatio = 0
               ELSE /\ 2 * result.coverageRatio * area - area
                           <= 2 * 10000 * total
                    /\ 2 * 10000 * total
                           < 2 * result.coverageRatio * area + area

\* a result with two rectangles that each cover the whole canvas: ratio 2
C15_Witness ==
    /\ Succeeded
    /\ Len(outcome.value.items) = 2
    /\ \A i \in 1..2 :
           /\ outcome.value.items[i].width = outcome.value.svgWidth
           /\ outcome.value.items[i].height = outcome.value.svgHeight
    /\ outcome.value.coverageRatio = 2 * 10000

(* C16: once an input has passed the five fatal checks (size, decode, root *)
(* element, positive dimensions, dimension ceiling) the call returns a     *)
(* result, whatever its <rect> elements are: none, one, without            *)
(* attributes, unusable, out of bounds, or more than maxRectangles.        *)
C16_NoFailureAfterGates ==
    /\ PassedGates => outcome.kind = "returned"
    /\ (Done /\ outcome.kind = "thrown")
           => outcome.error \in {SizeError, TimeoutErr, InvalidXMLError,
                                 NoRootError, NotPositiveError, TooLargeError}

\* a result for a document with a <rect> without attributes
C16_Witness ==
    /\ PassedGates
    /\ Succeeded
    /\ Len(NodesOfCall) = 2
    /\ ~NodesOfCall[1].hasAttrs
    /\ UsableRect(NodesOfCall[2])

(* C18: the decoded rect child is treated alike as a single node and as a  *)
(* list: a document with one usable <rect> gives itemsCount = 1 with that  *)
(* rectangle, and the same result as the list of that one node; a list of  *)
(* n usable <rect>, n <= maxRectangles, gives n items; a document without  *)
(* <rect> gives no items, the EMPTY issue and coverageRatio 0.             *)
C18_SingleOrList ==
    Succeeded =>
        LET result == outcome.value
            rect == svgContent.tree.svg.rect
            nodes == NodesOfCall
        IN  /\ rect.kind = "single"
                   => /\ outcome = parseTree(
                             [svgContent.tree EXCEPT !.svg.rect =
                                 [kind |-> "array", node |-> NoNode,
                                  nodes |-> <<rect.node>>]])
                      /\ UsableRect(rect.node)
                             => /\ result.itemsCount = 1
                                /\ result.items
                                       = <<ItemOfNode(rect.node,
                                                      result.svgWidth,
                                                      result.svgHeight)>>
            /\ (/\ rect.kind # "single"
                /\ Len(nodes) <= maxRectangles
                /\ \A i \in 1..Len(nodes) : UsableRect(nodes[i]))
                   => result.itemsCount = Len(nodes)
            /\ rect.kind = "none"
                   => /\ result.items = <<>>
                      /\ result.itemsCount = 0
                      /\ result.issues = <<"EMPTY">>
                      /\ result.coverageRatio = 0

\* a result with one item for a document whose rect child is a single node
C18_Witness ==
    /\ Succeeded
    /\ svgContent.tree.svg.rect.kind = "single"
    /\ UsableRect(svgContent.tree.svg.rect.node)
    /\ outcome.value.itemsCount = 1
    /\ ~HasIssue(outcome.value, "EMPTY")

\* the outcome of parseContent for a text, given which contestant of the
\* race settled first
OutcomeFor(content, winner) ==
    IF exceedsMaxSize(content.byteLength) THEN Thrown(SizeError)
    ELSE IF winner = "timer" THEN Thrown(TimeoutErr)
    ELSE IF ~content.wellFormed THEN Thrown(InvalidXMLError)
    ELSE parseTree(content.tree)

(* C17 as stated: any two finished calls with the same text have identical *)
(* outcomes (the same result or the same error), whatever other calls ran  *)
(* before or concurrently.                                                 *)
C17_SameTextSameOutcome ==
    \A c, d \in CallIds :
        (/\ call[c].pc = "done"
         /\ call[d].pc = "done"
         /\ call[c].svgContent = call[d].svgContent)
            => call[c].outcome = call[d].outcome

(* C17: parseContent keeps no state between calls, and its outcome is      *)
(* decided by its text and by the race of the decode against the timer:    *)
(* the outcome of every finished call is the outcome fixed by its own text *)
(* and by which of its decode and its timer settled first, so two calls    *)
(* with the same text have identical results or the same error whenever    *)
(* their races are won by the same contestant, in any order and with any   *)
(* other calls running concurrently; the limits are the same for every     *)
(* call.                                                                   *)
C17_SameOutcomeUnlessTimeout ==
    /\ \A c \in CallIds :
           call[c].pc = "done"
               => /\ call[c].outcome
                         = OutcomeFor(call[c].svgContent, call[c].firstSettled)
                  /\ call[c].outcome = Thrown(SizeError)
                         <=> call[c].svgContent.byteLength > maxFileSizeBytes
                  /\ call[c].outcome.kind = "returned"
                         => /\ call[c].outcome.value.itemsCount <= maxRectangles
                            /\ call[c].outcome.value.svgWidth <= maxDimension
                            /\ call[c].outcome.value.svgHeight <= maxDimension
    /\ \A c, d \in CallIds :
           (/\ call[c].pc = "done"
            /\ call[d].pc = "done"
            /\ call[c].svgContent = call[d].svgContent
            /\ call[c].firstSettled = call[d].firstSettled)
               => call[c].outcome = call[d].outcome

\* two finished calls with the same text and identical results, next to
\* each other in the one service
C17_Witness ==
    \E c, d \in CallIds :
        /\ c # d
        /\ call[c].pc = "done"
        /\ call[d].pc = "done"
        /\ call[c].svgContent = call[d].svgContent
        /\ call[c].outcome.kind = "returned"
        /\ call[c].outcome = call[d].outcome
        /\ metrics.svg_parsed_total_true + metrics.svg_parsed_total_false >= 2

\* position p of a style text starts a 'fill:' declaration with a value:
\* the letters of "fill" in either case, white space, a colon, and then at
\* least one character before the next ';'
ColonOfDecl(s, p) ==
    CHOOSE j \in (p + 4)..(Len(s) + 1) :
        \/ j = Len(s) + 1
        \/ ~IsSpace(s[j])

IsFillDecl(s, p) ==
    /\ p + 3 <= Len(s)
    /\ s[p] \in {"f", "F"}
    /\ s[p + 1] \in {"i", "I"}
    /\ s[p + 2] \in {"l", "L"}
    /\ s[p + 3] \in {"l", "L"}
    /\ LET j == ColonOfDecl(s, p)
       IN  /\ \A q \in (p + 4)..(j - 1) : IsSpace(s[q])
           /\ j <= Len(s)
           /\ s[j] = ":"
           /\ j + 1 <= Len(s)
           /\ s[j + 1] # ";"

\* the text of the declaration at p between its colon and the next ';'
DeclText(s, p) ==
    LET j == ColonOfDecl(s, p)
        ends == {e \in (j + 1)..Len(s) :
                     /\ \A q \in (j + 1)..e : s[q] # ";"
                     /\ e = Len(s) \/ s[e + 1] = ";"}
    IN  SubSeq(s, j + 1, CHOOSE e \in ends : TRUE)

\* v is raw without the white space at its two ends
IsTrimOf(v, raw) ==
    \E i \in 1..(Len(raw) + 1) :
        \E j \in 0..Len(raw) :
            /\ v = SubSeq(raw, i, j)
            /\ \A q \in 1..(i - 1) : IsSpace(raw[q])
            /\ \A q \in (j + 1)..Len(raw) : IsSpace(raw[q])
            /\ v # <<>> => ~IsSpace(v[1]) /\ ~IsSpace(v[Len(v)])

(* C19: the fill is resolved by strict precedence: a non-empty fill        *)
(* attribute is returned as it is, whatever the style; otherwise the text  *)
(* of the first 'fill:' declaration of the style that has a value (the     *)
(* name in either case, white space allowed around the colon), from the    *)
(* colon to the next ';' and without the white space at its ends;          *)
(* otherwise '#000000'. The value is never rewritten.                      *)
C19_FillPrecedence ==
    ret.fn = "extractFill" =>
        LET fill == arg.attrs.fill
            style == arg.attrs.style
            decls == IF style = Undefined THEN {}
                     ELSE {p \in 1..Len(style) : IsFillDecl(style, p)}
        IN  IF fill # Undefined /\ fill # <<>> THEN ret.value = fill
            ELSE IF decls = {} THEN ret.value = DefaultFill
            ELSE LET first == CHOOSE p \in decls : \A q \in decls : p <= q
                 IN  IsTrimOf(ret.value, DeclText(style, first))

\* a fill attribute returned although the style declares another fill
C19_Witness ==
    /\ ret.fn = "extractFill"
    /\ arg.attrs.fill = F_red
    /\ arg.attrs.style # Undefined
    /\ \E p \in 1..Len(arg.attrs.style) :
           /\ IsFillDecl(arg.attrs.style, p)
           /\ DeclText(arg.attrs.style, p) # F_red
    /\ ret.value = F_red

(* C20: a numeric attribute text followed by a unit suffix resolves to    *)
(* the same number as the text alone, namely the number the text stands    *)
(* for, as the root width and height and as x, y, width and height of a    *)
(* <rect>; a missing, empty or unparsable text resolves to 0, so that a    *)
(* <rect> without x or y is placed at 0 and a root without width or height *)
(* gets 0.                                                                 *)
C20_UnitSuffix ==
    LET v == arg.number.value
    IN  /\ ret.fn = "parseNumber"
               => /\ ret.suffixed = v
                  /\ ret.alone = v
        /\ ret.fn = "parseDimensions"
               => /\ ret.suffixed = [width |-> v, height |-> v]
                  /\ ret.alone = [width |-> v, height |-> v]
        /\ ret.fn = "itemOf"
               => /\ ret.suffixed = ret.alone
                  /\ Len(ret.suffixed[1]) = 1
                  /\ ret.suffixed[1][1].x = v
                  /\ ret.suffixed[1][1].y = v
                  /\ ret.suffixed[1][1].width = 5
                  /\ ret.suffixed[1][1].height = 5
                  /\ IF v <= 0 THEN ret.suffixed[2] = <<>>
                     ELSE /\ Len(ret.suffixed[2]) = 1
                          /\ ret.suffixed[2][1].x = 0
                          /\ ret.suffixed[2][1].y = 0
                          /\ ret.suffixed[2][1].width = v
                          /\ ret.suffixed[2][1].height = v

\* '800px' resolved to 800, as '800' is
C20_Witness ==
    /\ ret.fn = "parseNumber"
    /\ arg.number.value = 800
    /\ arg.suffix = <<"p", "x">>
    /\ ret.suffixed = 800
    /\ ret.alone = 800

\* parseFile has finished for a file that could be read
FileDone == ret # NoRet /\ ret.fn = "parseFile" /\ ret.pc = "done"

(* C21 as stated: when the read succeeds, parseFile returns the result or  *)
(* fails with the error of parseContent on the text read.                  *)
C21_SameAsParseContent ==
    (FileDone /\ arg.readable)
        => ret.outcome = OutcomeFor(arg.content, call[1].firstSettled)

(* C21: parseFile reads the file once. If the read fails, it fails with an *)
(* SVGParseError whose message wraps the message of the I/O error. If the  *)
(* text read is larger than maxFileSizeBytes, it fails with its own size   *)
(* error ('SVG file exceeds ...') without calling parseContent. Otherwise  *)
(* it returns the result or fails with the unwrapped SVGParseError of its  *)
(* parseContent call on that text. Every failure is an SVGParseError.      *)
C21_ParseFile ==
    /\ (ret # NoRet /\ ret.fn = "parseFile") => ret.reads = 1
    /\ FileDone =>
           /\ ~arg.readable
                  => /\ ret.outcome = Thrown(ReadOrParseError(ReadError.text))
                     /\ call[1].pc = "idle"
           /\ (arg.readable /\ arg.content.byteLength > maxFileSizeBytes)
                  => /\ ret.outcome = Thrown(FileSizeError)
                     /\ call[1].pc = "idle"
           /\ (arg.readable /\ arg.content.byteLength <= maxFileSizeBytes)
                  => /\ call[1].pc = "done"
                     /\ call[1].svgContent = arg.content
                     /\ ret.outcome = call[1].outcome
                     /\ ret.outcome
                            = OutcomeFor(arg.content, call[1].firstSettled)
           /\ ret.outcome.kind = "thrown"
                  => ret.outcome.error.name = "SVGParseError"

\* parseFile has failed with the dimension error of parseContent, unwrapped
C21_Witness ==
    /\ FileDone
    /\ arg.readable
    /\ call[1].pc = "done"
    /\ ret.outcome = Thrown(NotPositiveError)
    /\ call[1].outcome = Thrown(NotPositiveError)

(* C26: in every result, issues has at most one element: EMPTY and        *)
(* OUT_OF_BOUNDS never appear together, since OUT_OF_BOUNDS needs a        *)
(* rectangle in items and EMPTY needs items to be empty.                   *)
C26_IssuesExclusive ==
    Succeeded =>
        LET result == outcome.value
        IN  /\ Len(result.issues) <= 1
            /\ ~(HasIssue(result, "EMPTY") /\ HasIssue(result, "OUT_OF_BOUNDS"))
            /\ HasIssue(result, "OUT_OF_BOUNDS") => Len(result.items) > 0
            /\ HasIssue(result, "EMPTY") => Len(result.items) = 0

\* a result with EMPTY alone for a document whose only <rect> has no width
\* and reaches below the canvas
C26_Witness ==
    /\ Succeeded
    /\ outcome.value.issues = <<"EMPTY">>
    /\ LET nodes == NodesOfCall
       IN  /\ Len(nodes) = 1
           /\ ~UsableRect(nodes[1])
           /\ AttrValue(NodeAttrs(nodes[1]).y)
                  + AttrValue(NodeAttrs(nodes[1]).height)
                  > outcome.value.svgHeight

\* the runs of processWithRetry started so far
RunIds == 1..Len(processRuns)

\* run r has ended: its promise has settled
RunEnded(r) == processRuns[r].pc \in {"returned", "rejected"}

\* the errors a parseFile call on the file of the design can fail with now
ParseErrorsNow ==
    {parseFileOutcome(design.file, design.filePresent, winner).error :
         winner \in {winner \in {"decode", "timer"} :
                         parseFileOutcome(design.file, design.filePresent,
                                          winner).kind = "thrown"}}

(* C22: a run of processWithRetry calls the parser at most 3 times, and a  *)
(* further time only after a failed attempt and the sleep that follows it; *)
(* the attempt whose update is applied ends the run, with the design       *)
(* 'completed' and holding the parsed fields of that attempt; a run sleeps *)
(* only after attempt 1 or 2, keeping the error of the attempt that just   *)
(* failed; after the third failure it issues the final update, which, once *)
(* applied, leaves the design in status 'error' with the message naming 3  *)
(* attempts and the error of the third attempt; an ended run does nothing. *)
C22_RetryRun ==
    [][\A r \in RunIds :
           LET old == processRuns[r]
               new == processRuns'[r]
               failedNow == /\ old.pc \in {"parsing", "updating"}
                            /\ new.pc \in {"sleeping", "failing"}
           IN  /\ new.parseCalls <= 3
               /\ new.attempt <= 3
               /\ (new.pc = "parsing" /\ new # old)
                      => /\ old.pc = "sleeping"
                         /\ new.parseCalls = old.parseCalls + 1
               /\ (old.pc = "updating" /\ new.pc = "returned")
                      => /\ design'.status = "completed"
                         /\ design'.parsed = old.pending
                         /\ old.pending # NoParsed
               /\ (new.pc = "sleeping" /\ old.pc # "sleeping")
                      => old.attempt < 3
               /\ failedNow
                      => /\ new.pc = "failing" <=> old.attempt = 3
                         /\ old.pc = "parsing"
                                => new.lastError \in ParseErrorsNow
                         /\ old.pc = "updating"
                                => new.lastError
                                       \in {NotFoundError, RepositoryError}
               /\ (new.pc = "failing" /\ old.pc # "failing") => failedNow
               /\ (old.pc = "failing" /\ new.pc = "returned")
                      => /\ design'.status = "error"
                         /\ design'.errorMessage
                                = FailedMessage(3, old.lastError)
               /\ RunEnded(r) => new = old]_vars

\* the first run has returned after three failed attempts, the last one a
\* timeout of the parser although the file is well formed, and the design
\* is in status 'error' with that message
C22_Witness ==
    /\ Len(processRuns) = 1
    /\ processRuns[1].pc = "returned"
    /\ design.state = "stored"
    /\ design.file.wellFormed
    /\ design.status = "error"
    /\ design.errorMessage
           = FailedMessage(3, TimeoutError("XML parsing", parseTimeoutMs))

(* C23: the waits of a run follow 1s -> 2s -> 4s with jitter: the wait     *)
(* after the k-th failed attempt is at least 1000 * 2^(k-1) ms, at most    *)
(* 30% above it and at most 10000 ms, and a run that has used up its       *)
(* attempts has reached the 4s step.                                       *)
C23_BackoffReaches4s ==
    \A r \in RunIds :
        LET run == processRuns[r]
            base == 1000 * Power(2, run.attempt - 1)
        IN  /\ run.pc = "sleeping"
                   => /\ run.delay >= base
                      /\ 10 * run.delay <= 13 * base
                      /\ run.delay <= 10000
            /\ run.pc = "failing" => run.baseDelay = 4000

\* the waits that do happen keep within the documented limits
C23_WaitsWithinLimits ==
    \A r \in RunIds :
        LET run == processRuns[r]
            base == 1000 * Power(2, run.attempt - 1)
        IN  run.pc = "sleeping"
                => /\ run.attempt \in {1, 2}
                   /\ run.baseDelay = base
                   /\ run.delay >= base
                   /\ 10 * run.delay <= 13 * base
                   /\ run.delay <= 10000

\* request q has just been made: reprocess was called and has read the design
ReprocessReads(q) ==
    /\ requests.reprocess[q].pc = "idle"
    /\ requests'.reprocess[q].pc # "idle"

\* request q has just had its update applied
ReprocessActs(q) ==
    /\ requests.reprocess[q].pc = "updating"
    /\ requests'.reprocess[q].pc = "done"

(* C24: a reprocess request that finds the design in a status other than   *)
(* 'error' ends at once and never changes the stored design nor starts a   *)
(* run; one that finds it in 'error' goes on to its update, which sets the *)
(* status to 'processing' and starts exactly one run, at its first         *)
(* attempt. Besides create, nothing else starts a run or sets the status   *)
(* to 'processing'.                                                        *)
C24_ReprocessOnlyOnError ==
    [][/\ \A q \in 1..MaxReprocess :
              /\ ReprocessReads(q)
                     => /\ design' = design
                        /\ processRuns' = processRuns
                        /\ (design.state = "stored" /\ design.status # "error")
                               => requests'.reprocess[q].pc = "done"
                        /\ (design.state = "stored" /\ design.status = "error")
                               => requests'.reprocess[q].pc = "updating"
              /\ ReprocessActs(q)
                     => /\ design'.status = "processing"
                        /\ design'.parsed = design.parsed
                        /\ processRuns' = Append(processRuns, NewRun)
              /\ requests.reprocess[q].pc \in {"done", "rejected"}
                     => requests'.reprocess[q] = requests.reprocess[q]
       /\ Len(processRuns') # Len(processRuns)
              => \/ design.state = "absent"
                 \/ \E q \in 1..MaxReprocess : ReprocessActs(q)
       /\ (design'.status = "processing" /\ design.status # "processing")
              => \/ design.state = "absent"
                 \/ \E q \in 1..MaxReprocess : ReprocessActs(q)]_vars

\* the first request found the design 'completed' or 'processing' and
\* ended; the second one found it in 'error' later, and its update has set
\* it to 'processing' and started the second run
C24_Witness ==
    /\ requests.reprocess[1].pc = "done"
    /\ requests.reprocess[2].pc = "done"
    /\ Len(processRuns) = 2
    /\ processRuns[1].pc = "returned"
    /\ processRuns[2] = NewRun
    /\ design.state = "stored"
    /\ design.status = "processing"

\* every execute call made so far has settled
AllSettled ==
    /\ Len(hook.calls) > 0
    /\ \A i \in 1..Len(hook.calls) : hook.calls[i].pc = "settled"

(* C25: once every execute call has settled, the state of the hook (data,  *)
(* error, isLoading) is the outcome of the most recent execute call, in    *)
(* whatever order the calls settled.                                       *)
C25_LatestCallWins ==
    AllSettled
        => hook.state = SettledState(hook.calls[Len(hook.calls)].outcome)

\* the runs whose promise has not settled
ActiveRuns == {r \in RunIds : ~RunEnded(r)}

(* C27: at most one run of processWithRetry is active for the design at    *)
(* any time, whatever the interleaving of create, reprocess and the steps  *)
(* of the runs.                                                            *)
C27_OneActiveRun == Cardinality(ActiveRuns) <= 1

(* C28: no run of processWithRetry ends with a rejection: its promise,     *)
(* which nothing awaits, always fulfils.                                   *)
C28_NoUncaughtRejection ==
    \A r \in RunIds : processRuns[r].pc # "rejected"

(* C29: a stored design in status 'processing' eventually is 'completed'   *)
(* or 'error', or is deleted, when every parser call and repository call   *)
(* settles and every sleep elapses.                                        *)
C29_ProcessingEnds ==
    (design.state = "stored" /\ design.status = "processing")
        ~> \/ design.state = "deleted"
           \/ design.status \in {"completed", "error"}

(* C30: 'completed' is final for a stored design: its status and its       *)
(* parsed fields never change again, and the only changes of status are    *)
(* processing -> completed, processing -> error and error -> processing.   *)
C30_CompletedIsFinal ==
    [][(design.state = "stored" /\ design'.state = "stored")
           => /\ design.status = "completed"
                     => /\ design'.status = "completed"
                        /\ design'.parsed = design.parsed
              /\ design'.status # design.status
                     => <<design.status, design'.status>>
                            \in {<<"processing", "completed">>,
                                 <<"processing", "error">>,
                                 <<"error", "processing">>}]_vars

====
